---- MODULE Spec2Model ----
(***************************************************************************)
(* Model of the transaction pipeline of solana-foundation/kit-react:       *)
(*   - the Instruction Pool Controller (transactionPoolController.ts),     *)
(*   - the SPL token sendTransfer retry (features/spl.ts),                 *)
(*   - the Transaction Helper's prepareAndSend (features/transactions.ts)  *)
(*     together with the compute unit tuner (prepareTransaction).          *)
(* Each component has its own specification over the shared variables.     *)
(***************************************************************************)
EXTENDS Integers, Sequences, FiniteSets, Bags, TLC

\* ------------------------------------------------------------------------
\* Bounds of the model
\* ------------------------------------------------------------------------
MaxInstr == 1      \* longest instruction list the pool is driven to
MaxPending == 2    \* controller calls (prepare/send/prepareAndSend) in flight at once
MaxNow == 2        \* Date.now() runs over 0..MaxNow
MaxWalletCalls == 2  \* calls made on one wrapped wallet signer
MaxWarming == 2      \* setCluster calls warming up at once
MaxLen == 5          \* longest decimal string handed to fromDecimal
MaxDecimals == 2     \* createTokenAmount(decimals) for decimals in 0..MaxDecimals
MaxAmount == 12      \* largest amount, numerator and denominator of the arithmetic calls
MaxStoreCalls == 1   \* helper calls a controller with a listener awaits at once, per kind

\* ------------------------------------------------------------------------
\* Program constants
\* ------------------------------------------------------------------------
DefaultBlockhashMaxAgeMs == 30000

\* DEFAULT_COMPUTE_UNIT_LIMIT_MULTIPLIER = 1.1, in tenths
DefaultMultiplierTenths == 11

\* the compute unit limit written when the simulation reports no units
FallbackComputeUnits == 200000

VARIABLES
    \* --- Instruction Pool Controller ---
    initialInstructions,   \* config.initialInstructions, frozen
    blockhashMaxAgeMs,     \* config.blockhashMaxAgeMs ?? 30_000
    latestBlockhashCache,  \* let latestBlockhashCache
    instructions,          \* instructionsStore snapshot
    prepared,              \* preparedStore snapshot
    prepareState,          \* prepareStateStore snapshot
    sendState,             \* sendStateStore snapshot
    now,                   \* Date.now()
    pending,               \* bag of the helper promises the controller is awaiting
    ret,                   \* the last controller operation and how it returned
    \* --- SPL token helper ---
    spl,                   \* one sendTransfer call: its position, its data, the calls it made
    \* --- Transaction Helper and compute unit tuner ---
    tx,                    \* one helper call: its position, its data, the calls it made
    \* --- Wallet transaction signer ---
    wallet,                \* one wallet session and the signer wrapped around it
    \* --- Client store ---
    cluster,               \* store.getState().cluster and the setCluster calls warming up
    \* --- Token amount math ---
    numeric,               \* one createTokenAmount(decimals) helper: the arguments and what the calls returned
    \* --- Instruction Pool Controller with a subscribed listener ---
    stores,                \* the four stores, the listener and what it saw and did
    \* --- SOL transfer controller ---
    solTransfer,           \* the controller's state, its subscribers and the pending send
    \* --- Client watchers ---
    watch,                 \* one account watcher: its handle, its subscription, the store entry
    \* --- Client wallet actions ---
    connection             \* the wallet slice of the store and the connect/disconnect calls in flight

poolVars == <<initialInstructions, blockhashMaxAgeMs, latestBlockhashCache, instructions,
              prepared, prepareState, sendState, now, pending, ret>>

vars == <<poolVars, spl, tx, wallet, cluster, numeric, stores, solTransfer, watch, connection>>

\* ------------------------------------------------------------------------
\* Values
\* ------------------------------------------------------------------------
\* the instruction the pool is filled with; "ixB" occurs in overrides only
Instr == {"ixA"}

RECURSIVE SeqsUpTo(_)
SeqsUpTo(n) ==
    IF n = 0 THEN {<<>>}
    ELSE LET shorter == SeqsUpTo(n - 1)
         IN shorter \cup {Append(s, i) : s \in {t \in shorter : Len(t) = n - 1}, i \in Instr}

InstrLists == SeqsUpTo(MaxInstr)

\* lifetimes: an explicitly supplied one, the cached one, one the helper fetched
NoLifetime == "undefined"
ExplicitLifetime == "explicit"
CachedLifetime == "cached"
FetchedLifetime == "fetched"

\* TransactionPrepared | null
NoPrepared == [instructions |-> <<>>, lifetime |-> NoLifetime]
ForeignPrepared == [instructions |-> <<"ixB">>, lifetime |-> ExplicitLifetime]

\* errors; the helper rejects with an error value of its own
NoError == [kind |-> "none", id |-> 0]
ErrEmptyInstructions == [kind |-> "Add at least one instruction before preparing a transaction.", id |-> 0]
ErrNoPrepared == [kind |-> "Prepare a transaction before sending.", id |-> 0]
HelperError(v) == [kind |-> "helper rejected", id |-> v]

\* SPL token helper: a lifetime is known by where it came from (the caller's config,
\* or the getLatestBlockhash call at a position of the call log)
NoSplLifetime == [from |-> "undefined", call |-> 0]

ConfigSplLifetime == [from |-> "config", call |-> 0]

RpcSplLifetime(call) == [from |-> "rpc", call |-> call]

NoSplPrepared == [lifetime |-> NoSplLifetime, mode |-> "none", createAta |-> FALSE]

NoSplConfig ==
    [lifetime |-> NoSplLifetime, authority |-> "none", amountValid |-> TRUE,
     ensureDestinationAta |-> TRUE]

SplIdle ==
    [pc |-> "idle", call |-> "none", exists |-> FALSE, config |-> NoSplConfig, request |-> NoSplConfig, attempt |-> 0,
     cachedDecimals |-> FALSE, lifetime |-> NoSplLifetime, createAta |-> FALSE,
     prepared |-> NoSplPrepared, retriedPrepared |-> NoSplPrepared,
     sending |-> NoSplPrepared, log |-> <<>>, result |-> "pending", error |-> "none"]

\* Transaction Helper: a blockhash lifetime is known by where it came from (the
\* request, or the getLatestBlockhash call at a position of the call log)
NoBlockhash == [from |-> "undefined", call |-> 0]

RequestBlockhash == [from |-> "request", call |-> 0]

RpcBlockhash(call) == [from |-> "rpc", call |-> call]

\* instructions: of an application program, or of the compute budget program.
\* lookup is what the instruction carries: no lookup property ("absent"),
\* addressTableLookup: null ("null"), addressTableLookup: {...} ("addressTableLookup"),
\* addressTableLookups: [] ("emptyList"), addressTableLookups: [...] ("addressTableLookups")
AppInstruction == [program |-> "app", kind |-> "app", lookup |-> "absent", value |-> 0]

LookupInstruction ==
    [program |-> "app", kind |-> "app", lookup |-> "addressTableLookup", value |-> 0]

getSetComputeUnitLimitInstruction(units) ==
    [program |-> "computeBudget", kind |-> "SetComputeUnitLimit", lookup |-> "absent",
     value |-> units]

getSetComputeUnitPriceInstruction(microLamports) ==
    [program |-> "computeBudget", kind |-> "SetComputeUnitPrice", lookup |-> "absent",
     value |-> microLamports]

NoMessage ==
    [version |-> "none", feePayer |-> "none", feePayerSigner |-> "none",
     instructions |-> <<>>, lifetime |-> NoBlockhash]

NoTxPrepared ==
    [commitment |-> "none", computeUnitLimit |-> -1, computeUnitPrice |-> -1,
     feePayer |-> "none", instructions |-> <<>>, lifetime |-> NoBlockhash,
     message |-> NoMessage, mode |-> "none", version |-> "none"]

NoTxRequest ==
    [instructions |-> <<>>, authority |-> "none", feePayer |-> "none",
     lifetime |-> NoBlockhash, version |-> "undefined", computeUnitLimit |-> -1,
     computeUnitPrice |-> -1, abortSignal |-> FALSE, commitment |-> "undefined",
     prepareTransaction |-> "undefined"]

\* no signer has been wrapped around the wallet session yet
NoWalletSigner ==
    [session |-> "none", createdFrom |-> "none", commitment |-> "undefined",
     mode |-> "none", bound |-> "none", error |-> "none",
     calls |-> 0, called |-> "none", options |-> "none", outcome |-> "none",
     pc |-> "idle",              \* "signing" while the wallet's signTransaction is awaited
     transactions |-> <<>>,      \* the argument of modifyAndSignTransactions, as it was given
     inputNow |-> <<>>,          \* what the objects of that argument hold now
     signCalls |-> <<>>,         \* the argument of every signTransaction call, in order
     signed |-> <<>>,            \* what the wallet resolved these calls with
     signedTransactions |-> <<>>,
     hasReturned |-> FALSE, returned |-> <<>>]

\* TransactionSendOptions left empty
NoSendOptions == [commitment |-> "undefined"]

\* computeUnitLimitMultiplier is in tenths, -1 for undefined
NoTunerConfig ==
    [blockhashReset |-> "absent", computeUnitLimitReset |-> FALSE, logRequest |-> FALSE,
     computeUnitLimitMultiplier |-> -1]

TxIdle ==
    [pc |-> "idle", call |-> "none", request |-> NoTxRequest, aborted |-> FALSE,
     mode |-> "none", feePayer |-> "none", feePayerSigner |-> "none", version |-> "none",
     prepared |-> NoTxPrepared, config |-> NoTunerConfig, transaction |-> NoMessage,
     sending |-> NoTxPrepared, options |-> NoSendOptions, preflightCommitment |-> "none",
     previous |-> NoTxPrepared, input |-> NoMessage,
     inputObject |-> NoMessage,  \* what the object given as config.transaction holds now
     fresh |-> FALSE,            \* the tuner's transaction is another object than that one
     assembly |-> <<>>,          \* the message after each step of the pipe of prepare
     commitment |-> "none",  \* const commitment of prepare
     fallback |-> "none",    \* what the store held as cluster commitment when prepare was called
     abortedAt |-> "none",   \* where the call was suspended when its signal was aborted
     unitsConsumed |-> -2,   \* value.unitsConsumed of the simulation: -1 absent, -2 not simulated
     log |-> <<>>, result |-> "pending", error |-> "none"]

\* createClusterState(config) for a configuration with commitment 'confirmed'; warming
\* lists the nextCommitment of every setCluster call whose warmup has not settled
createClusterState == [commitment |-> "confirmed", status |-> "idle", warming |-> <<>>]

\* a number, string or bigint argument: what typeof, Number.isFinite, Number.isInteger,
\* Number.isSafeInteger and toString(10) say about it; int is its value when it is an
\* integer the model can hold, str its characters
NoValue ==
    [type |-> "undefined", finite |-> FALSE, integer |-> FALSE, safe |-> FALSE, int |-> 0,
     str |-> <<>>]

NoRatio == [numerator |-> 0, denominator |-> 0]

NoFormatOptions == [minimumFractionDigits |-> -2, trimTrailingZeros |-> "undefined"]

\* no token amount call has been prepared
NoNumeric ==
    [pc |-> "none", op |-> "none", decimals |-> 0, value |-> NoValue, rounding |-> "undefined",
     lhs |-> 0, rhs |-> 0, numeratorInput |-> 0, denominatorInput |-> 0,
     options |-> NoFormatOptions, ratio |-> NoRatio, last |-> "none", result |-> 0,
     text |-> <<>>, error |-> "none"]

\* no controller with a listener, no SOL transfer controller, no watcher and no wallet
\* action has been set up
NoStores == [pc |-> "none"]

NoSolTransfer == [pc |-> "none"]

NoWatch == [pc |-> "none"]

NoConnection == [pc |-> "none"]

NoCache == [set |-> FALSE, updatedAt |-> 0, value |-> NoLifetime]

\* createInitialAsyncState / createAsyncState; sig is the data of a send state
createInitialAsyncState == [status |-> "idle", data |-> NoPrepared, sig |-> 0, error |-> NoError]

createAsyncState(status, data, sig, error) ==
    [status |-> status, data |-> data, sig |-> sig, error |-> error]

\* the last operation of the controller:
\*   op, and the arguments it was called with: has/list (the optional instruction list
\*   or prepared transaction was given; the list), given (the lifetime option), arg (the
\*   index of removeInstruction, the length of the list of addInstructions);
\*   hadPrepared, size: whether the pool held a prepared transaction and how many
\*   instructions before a mutation;
\*   result: return, throw, pending (the helper is awaited), resolve or reject, with the
\*   error thrown and the value the helper settled with;
\*   helper: the helper function invoked and the instructions, lifetime, target passed
RetBase ==
    [op |-> "init", has |-> FALSE, list |-> <<>>, given |-> NoLifetime, arg |-> 0,
     hadPrepared |-> FALSE, size |-> 0,
     result |-> "return", err |-> NoError, value |-> 0,
     helper |-> "none", instructions |-> <<>>, lifetime |-> NoLifetime, target |-> NoPrepared]

Returned(op) == [RetBase EXCEPT !.op = op]

Mutated(op, arg) ==
    [RetBase EXCEPT !.op = op, !.arg = arg, !.hadPrepared = (prepared # NoPrepared),
                    !.size = Len(instructions)]

Called(op, has, list, given) ==
    [RetBase EXCEPT !.op = op, !.has = has, !.list = IF has THEN list ELSE <<>>,
                    !.given = given]

Rejected(r, err) == [r EXCEPT !.result = "reject", !.err = err]

Thrown(r, err) == [r EXCEPT !.result = "throw", !.err = err]

Invoked(r, result, fn, instructionList, lifetime, target) ==
    [r EXCEPT !.result = result, !.helper = fn, !.instructions = instructionList,
              !.lifetime = lifetime, !.target = target]

\* ------------------------------------------------------------------------
\* Instruction Pool Controller: instruction mutations
\* ------------------------------------------------------------------------

\* resetDerivedState(): the three stores are set in the same synchronous call
resetDerivedState ==
    /\ prepared' = NoPrepared
    /\ prepareState' = createInitialAsyncState
    /\ sendState' = createInitialAsyncState

\* variant: the instruction list is replaced but the derived state is left alone
commitInstructions_NoReset(next) ==
    /\ instructions' = next
    /\ UNCHANGED <<prepared, prepareState, sendState>>

commitInstructions(next) ==
    /\ instructions' = next
    /\ resetDerivedState

poolFrame == UNCHANGED <<initialInstructions, blockhashMaxAgeMs, latestBlockhashCache,
                          now, pending, spl, tx, wallet, cluster, numeric, stores,
                   solTransfer, watch, connection>>

addInstruction(instruction) ==
    /\ Len(instructions) < MaxInstr
    /\ commitInstructions(Append(instructions, instruction))
    /\ ret' = Mutated("addInstruction", 1)
    /\ poolFrame

addInstructions(instructionSet) ==
    /\ Len(instructions) + Len(instructionSet) <= MaxInstr
    /\ IF Len(instructionSet) = 0
       THEN UNCHANGED <<instructions, prepared, prepareState, sendState>>
       ELSE commitInstructions(instructions \o instructionSet)
    /\ ret' = Mutated("addInstructions", Len(instructionSet))
    /\ poolFrame

replaceInstructions(instructionSet) ==
    /\ commitInstructions(instructionSet)
    /\ ret' = Mutated("replaceInstructions", Len(instructionSet))
    /\ poolFrame

clearInstructions ==
    /\ commitInstructions(<<>>)
    /\ ret' = Mutated("clearInstructions", 0)
    /\ poolFrame

\* index is the 0-based JavaScript index
removeInstruction(index) ==
    /\ IF index < 0 \/ index >= Len(instructions)
       THEN UNCHANGED <<instructions, prepared, prepareState, sendState>>
       ELSE commitInstructions(
                [k \in 1..(Len(instructions) - 1) |->
                    IF k <= index THEN instructions[k] ELSE instructions[k + 1]])
    /\ ret' = Mutated("removeInstruction", index)
    /\ poolFrame

reset ==
    /\ commitInstructions(initialInstructions)
    /\ ret' = Mutated("reset", 0)
    /\ poolFrame

\* ------------------------------------------------------------------------
\* Instruction Pool Controller: cached lifetime
\* ------------------------------------------------------------------------
setLatestBlockhashCache(cache) ==
    /\ latestBlockhashCache' = cache
    /\ ret' = Returned("setLatestBlockhashCache")
    /\ UNCHANGED <<initialInstructions, blockhashMaxAgeMs, instructions, prepared,
                   prepareState, sendState, now, pending, spl, tx, wallet, cluster, numeric, stores,
                   solTransfer, watch, connection>>

\* the wall clock advances between two operations
Tick ==
    /\ now < MaxNow
    /\ now' = now + 1
    /\ ret' = Returned("tick")
    /\ UNCHANGED <<initialInstructions, blockhashMaxAgeMs, latestBlockhashCache, instructions,
                   prepared, prepareState, sendState, pending, spl, tx, wallet, cluster, numeric, stores,
                   solTransfer, watch, connection>>

\* variant: a cache exactly blockhashMaxAgeMs old already counts as expired
resolveCachedLifetime_OffByOne ==
    IF ~latestBlockhashCache.set THEN NoLifetime
    ELSE IF now - latestBlockhashCache.updatedAt >= blockhashMaxAgeMs THEN NoLifetime
    ELSE latestBlockhashCache.value

resolveCachedLifetime ==
    IF ~latestBlockhashCache.set THEN NoLifetime
    ELSE IF now - latestBlockhashCache.updatedAt > blockhashMaxAgeMs THEN NoLifetime
    ELSE latestBlockhashCache.value

\* prepare(): const cachedLifetime = rest.lifetime ?? resolveCachedLifetime(); ...
prepareLifetime(lifetime) ==
    LET cachedLifetime == IF lifetime # NoLifetime THEN lifetime ELSE resolveCachedLifetime
    IN IF cachedLifetime # NoLifetime /\ lifetime = NoLifetime THEN cachedLifetime ELSE lifetime

resolveLifetimeOptions(lifetime) ==
    IF lifetime # NoLifetime THEN lifetime
    ELSE IF resolveCachedLifetime = NoLifetime THEN lifetime
    ELSE resolveCachedLifetime

\* ------------------------------------------------------------------------
\* Instruction Pool Controller: prepare / send / prepareAndSend
\*   hasInstr / hasOverride tell whether the caller gave the optional argument
\* ------------------------------------------------------------------------
asyncFrame == UNCHANGED <<initialInstructions, blockhashMaxAgeMs, latestBlockhashCache,
                           instructions, now, spl, tx, wallet, cluster, numeric, stores,
                   solTransfer, watch, connection>>

\* a pending helper.prepare keeps its request, since what it resolves with is made
\* from it; the helper settles a promise with a value of its own choosing
Request(fn, instructionList, lifetime) ==
    [fn |-> fn, instructions |-> instructionList, lifetime |-> lifetime]

Await(request) == pending (+) SetToBag({request})

Settle(request) == pending (-) SetToBag({request})

Values == 1..2

\* variant: the emptiness check is left out
ensureInstructions_Skipped(instructionList) == TRUE

\* ensureInstructions(list) throws on an empty list
ensureInstructions(instructionList) == Len(instructionList) > 0

\* resolvePrepared(override): override ?? preparedStore.getSnapshot()
resolvePrepared(hasOverride, override) == IF hasOverride THEN override ELSE prepared

\* prepare(options), up to the await of helper.prepare
prepare(hasInstr, overrideInstructions, lifetime) ==
    LET nextInstructions == IF hasInstr THEN overrideInstructions ELSE instructions
    IN IF ~ensureInstructions(nextInstructions)
       THEN /\ ret' = Rejected(Called("prepare", hasInstr, overrideInstructions, lifetime),
                                ErrEmptyInstructions)
            /\ UNCHANGED <<prepared, prepareState, sendState, pending>>
            /\ asyncFrame
       ELSE /\ BagCardinality(pending) < MaxPending
            /\ prepareState' = createAsyncState("loading", NoPrepared, 0, NoError)
            /\ pending' = Await(Request("prepare", nextInstructions, prepareLifetime(lifetime)))
            /\ ret' = Invoked(Called("prepare", hasInstr, overrideInstructions, lifetime),
                               "pending", "prepare", nextInstructions,
                               prepareLifetime(lifetime), NoPrepared)
            /\ UNCHANGED <<prepared, sendState>>
            /\ asyncFrame

\* what helper.prepare resolves with for a request: the lifetime given, or one it fetched
helperPrepared(p) ==
    [instructions |-> p.instructions,
     lifetime |-> IF p.lifetime # NoLifetime THEN p.lifetime ELSE FetchedLifetime]

\* variant: the error state is created without the error payload
prepareSettled_DropsError(p, ok, v) ==
    /\ BagIn(p, pending) /\ p.fn = "prepare"
    /\ pending' = Settle(p)
    /\ IF ok
       THEN /\ prepared' = helperPrepared(p)
            /\ prepareState' = createAsyncState("success", helperPrepared(p), 0, NoError)
            /\ ret' = [Returned("prepareSettled") EXCEPT !.result = "resolve",
                                                         !.target = helperPrepared(p)]
       ELSE /\ prepareState' = createAsyncState("error", NoPrepared, 0, NoError)
            /\ ret' = Rejected(Returned("prepareSettled"), HelperError(v))
            /\ UNCHANGED prepared
    /\ UNCHANGED sendState
    /\ UNCHANGED <<initialInstructions, blockhashMaxAgeMs, latestBlockhashCache,
                   instructions, now, spl, tx, wallet, cluster, numeric, stores,
                   solTransfer, watch, connection>>

\* prepare(options), from the settlement of helper.prepare on
prepareSettled(p, ok, v) ==
    /\ BagIn(p, pending) /\ p.fn = "prepare"
    /\ pending' = Settle(p)
    /\ IF ok
       THEN /\ prepared' = helperPrepared(p)
            /\ prepareState' = createAsyncState("success", helperPrepared(p), 0, NoError)
            /\ ret' = [Returned("prepareSettled") EXCEPT !.result = "resolve",
                                                         !.target = helperPrepared(p)]
       ELSE /\ prepareState' = createAsyncState("error", NoPrepared, 0, HelperError(v))
            /\ ret' = Rejected(Returned("prepareSettled"), HelperError(v))
            /\ UNCHANGED prepared
    /\ UNCHANGED sendState
    /\ asyncFrame

\* send(options), up to the await of helper.send
send(hasOverride, overridePrepared) ==
    LET target == resolvePrepared(hasOverride, overridePrepared)
    IN IF target = NoPrepared
       THEN /\ ret' = Rejected(Called("send", hasOverride, <<>>, NoLifetime), ErrNoPrepared)
            /\ UNCHANGED <<prepared, prepareState, sendState, pending>>
            /\ asyncFrame
       ELSE /\ BagCardinality(pending) < MaxPending
            /\ sendState' = createAsyncState("loading", NoPrepared, 0, NoError)
            /\ pending' = Await(Request("send", <<>>, NoLifetime))
            /\ ret' = Invoked(Called("send", hasOverride, <<>>, NoLifetime),
                               "pending", "send", <<>>, NoLifetime, target)
            /\ UNCHANGED <<prepared, prepareState>>
            /\ asyncFrame

\* variant: a settlement is delivered only while the slice is still loading
sendSettled_OnlyIfLoading(p, ok, v) ==
    /\ BagIn(p, pending) /\ p.fn = "send"
    /\ pending' = Settle(p)
    /\ sendState' =
          IF sendState.status # "loading" THEN sendState
          ELSE IF ok THEN createAsyncState("success", NoPrepared, v, NoError)
          ELSE createAsyncState("error", NoPrepared, 0, HelperError(v))
    /\ ret' = IF ok THEN [Returned("sendSettled") EXCEPT !.result = "resolve", !.value = v]
              ELSE Rejected(Returned("sendSettled"), HelperError(v))
    /\ UNCHANGED <<prepared, prepareState>>
    /\ UNCHANGED <<initialInstructions, blockhashMaxAgeMs, latestBlockhashCache,
                   instructions, now, spl, tx, wallet, cluster, numeric, stores,
                   solTransfer, watch, connection>>

\* send(options), from the settlement of helper.send on, with signature or error v
sendSettled(p, ok, v) ==
    /\ BagIn(p, pending) /\ p.fn = "send"
    /\ pending' = Settle(p)
    /\ IF ok
       THEN /\ sendState' = createAsyncState("success", NoPrepared, v, NoError)
            /\ ret' = [Returned("sendSettled") EXCEPT !.result = "resolve", !.value = v]
       ELSE /\ sendState' = createAsyncState("error", NoPrepared, 0, HelperError(v))
            /\ ret' = Rejected(Returned("sendSettled"), HelperError(v))
    /\ UNCHANGED <<prepared, prepareState>>
    /\ asyncFrame

\* variant: the call takes the prepare slice through 'loading' as prepare does
prepareAndSend_AlsoPrepareState(hasInstr, overrideInstructions, lifetime) ==
    LET nextInstructions == IF hasInstr THEN overrideInstructions ELSE instructions
    IN IF ~ensureInstructions(nextInstructions)
       THEN /\ ret' = Rejected(Called("prepareAndSend", hasInstr, overrideInstructions, lifetime),
                                ErrEmptyInstructions)
            /\ UNCHANGED <<prepared, prepareState, sendState, pending>>
            /\ asyncFrame
       ELSE /\ BagCardinality(pending) < MaxPending
            /\ sendState' = createAsyncState("loading", NoPrepared, 0, NoError)
            /\ prepareState' = createAsyncState("loading", NoPrepared, 0, NoError)
            /\ pending' = Await(Request("prepareAndSend", <<>>, NoLifetime))
            /\ ret' = Invoked(Called("prepareAndSend", hasInstr, overrideInstructions, lifetime),
                               "pending", "prepareAndSend", nextInstructions,
                               resolveLifetimeOptions(lifetime), NoPrepared)
            /\ UNCHANGED prepared
            /\ asyncFrame

\* prepareAndSend(request, sendOptions), up to the await of helper.prepareAndSend
prepareAndSend(hasInstr, overrideInstructions, lifetime) ==
    LET nextInstructions == IF hasInstr THEN overrideInstructions ELSE instructions
    IN IF ~ensureInstructions(nextInstructions)
       THEN /\ ret' = Rejected(Called("prepareAndSend", hasInstr, overrideInstructions, lifetime),
                                ErrEmptyInstructions)
            /\ UNCHANGED <<prepared, prepareState, sendState, pending>>
            /\ asyncFrame
       ELSE /\ BagCardinality(pending) < MaxPending
            /\ sendState' = createAsyncState("loading", NoPrepared, 0, NoError)
            /\ pending' = Await(Request("prepareAndSend", <<>>, NoLifetime))
            /\ ret' = Invoked(Called("prepareAndSend", hasInstr, overrideInstructions, lifetime),
                               "pending", "prepareAndSend", nextInstructions,
                               resolveLifetimeOptions(lifetime), NoPrepared)
            /\ UNCHANGED <<prepared, prepareState>>
            /\ asyncFrame

\* variant: the outcome is written to the prepare slice instead of the send slice
prepareAndSendSettled_WrongSlice(p, ok, v) ==
    /\ BagIn(p, pending) /\ p.fn = "prepareAndSend"
    /\ pending' = Settle(p)
    /\ IF ok
       THEN /\ prepareState' = createAsyncState("success", NoPrepared, v, NoError)
            /\ ret' = [Returned("prepareAndSendSettled") EXCEPT !.result = "resolve", !.value = v]
       ELSE /\ prepareState' = createAsyncState("error", NoPrepared, 0, HelperError(v))
            /\ ret' = Rejected(Returned("prepareAndSendSettled"), HelperError(v))
    /\ UNCHANGED <<prepared, sendState>>
    /\ UNCHANGED <<initialInstructions, blockhashMaxAgeMs, latestBlockhashCache,
                   instructions, now, spl, tx, wallet, cluster, numeric, stores,
                   solTransfer, watch, connection>>

\* prepareAndSend(request, sendOptions), from the settlement of helper.prepareAndSend on
prepareAndSendSettled(p, ok, v) ==
    /\ BagIn(p, pending) /\ p.fn = "prepareAndSend"
    /\ pending' = Settle(p)
    /\ IF ok
       THEN /\ sendState' = createAsyncState("success", NoPrepared, v, NoError)
            /\ ret' = [Returned("prepareAndSendSettled") EXCEPT !.result = "resolve", !.value = v]
       ELSE /\ sendState' = createAsyncState("error", NoPrepared, 0, HelperError(v))
            /\ ret' = Rejected(Returned("prepareAndSendSettled"), HelperError(v))
    /\ UNCHANGED <<prepared, prepareState>>
    /\ asyncFrame

\* sign(options) and toWire(options): resolvePrepared throws, or the helper is invoked
\* on the target and its promise returned
sign(hasOverride, overridePrepared) ==
    /\ ret' = IF resolvePrepared(hasOverride, overridePrepared) = NoPrepared
              THEN Thrown(Called("sign", hasOverride, <<>>, NoLifetime), ErrNoPrepared)
              ELSE Invoked(Called("sign", hasOverride, <<>>, NoLifetime), "return", "sign",
                           <<>>, NoLifetime, resolvePrepared(hasOverride, overridePrepared))
    /\ UNCHANGED <<prepared, prepareState, sendState, pending>>
    /\ asyncFrame

toWire(hasOverride, overridePrepared) ==
    /\ ret' = IF resolvePrepared(hasOverride, overridePrepared) = NoPrepared
              THEN Thrown(Called("toWire", hasOverride, <<>>, NoLifetime), ErrNoPrepared)
              ELSE Invoked(Called("toWire", hasOverride, <<>>, NoLifetime), "return", "toWire",
                           <<>>, NoLifetime, resolvePrepared(hasOverride, overridePrepared))
    /\ UNCHANGED <<prepared, prepareState, sendState, pending>>
    /\ asyncFrame

\* ------------------------------------------------------------------------
\* Specification of the Instruction Pool Controller
\* ------------------------------------------------------------------------
\* createTransactionPoolController(config), config.blockhashMaxAgeMs left to its default
createTransactionPoolController ==
    /\ initialInstructions = <<"ixA">>
    /\ blockhashMaxAgeMs = DefaultBlockhashMaxAgeMs
    /\ latestBlockhashCache = NoCache
    /\ instructions = initialInstructions
    /\ prepared = NoPrepared
    /\ prepareState = createInitialAsyncState
    /\ sendState = createInitialAsyncState
    /\ now = 0
    /\ pending = EmptyBag
    /\ ret = RetBase

Init ==
    /\ createTransactionPoolController
    /\ spl = SplIdle
    /\ tx = TxIdle
    /\ wallet = NoWalletSigner
    /\ cluster = createClusterState
    /\ numeric = NoNumeric
    /\ stores = NoStores
    /\ solTransfer = NoSolTransfer
    /\ watch = NoWatch
    /\ connection = NoConnection

\* the optional instruction list of prepare and prepareAndSend: absent, empty, or given
InstructionOptions ==
    {[has |-> FALSE, list |-> <<>>], [has |-> TRUE, list |-> <<>>], [has |-> TRUE, list |-> <<"ixB">>]}

Next ==
    \/ \E i \in Instr : addInstruction(i)
    \/ \E s \in InstrLists : addInstructions(s)
    \/ \E s \in InstrLists : replaceInstructions(s)
    \/ clearInstructions
    \/ \E index \in -1..MaxInstr : removeInstruction(index)
    \/ reset
    \/ \E o \in InstructionOptions : prepare(o.has, o.list, NoLifetime)
    \/ \E p \in BagToSet(pending), ok \in BOOLEAN, v \in Values : prepareSettled(p, ok, v)
    \/ \E h \in BOOLEAN : send(h, ForeignPrepared)
    \/ \E p \in BagToSet(pending), ok \in BOOLEAN, v \in Values : sendSettled(p, ok, v)
    \/ \E o \in InstructionOptions : prepareAndSend(o.has, o.list, NoLifetime)
    \/ \E p \in BagToSet(pending), ok \in BOOLEAN, v \in Values : prepareAndSendSettled(p, ok, v)
    \/ \E h \in BOOLEAN : sign(h, ForeignPrepared)
    \/ \E h \in BOOLEAN : toWire(h, ForeignPrepared)

Spec == Init /\ [][Next]_vars

\* ------------------------------------------------------------------------
\* The controller under a moving clock and a poller feeding the lifetime cache
\* ------------------------------------------------------------------------
CacheAges == {-1, 0, DefaultBlockhashMaxAgeMs - 1, DefaultBlockhashMaxAgeMs}

Caches == {NoCache} \cup
    {[set |-> TRUE, updatedAt |-> now - age, value |-> CachedLifetime] : age \in CacheAges}

Lifetimes == {NoLifetime, ExplicitLifetime}

CacheInit ==
    /\ initialInstructions = <<"ixA">>
    /\ blockhashMaxAgeMs \in {DefaultBlockhashMaxAgeMs, 1}
    /\ latestBlockhashCache = NoCache
    /\ instructions = initialInstructions
    /\ prepared = NoPrepared
    /\ prepareState = createInitialAsyncState
    /\ sendState = createInitialAsyncState
    /\ now = 0
    /\ pending = EmptyBag
    /\ ret = RetBase
    /\ spl = SplIdle
    /\ tx = TxIdle
    /\ wallet = NoWalletSigner
    /\ cluster = createClusterState
    /\ numeric = NoNumeric
    /\ stores = NoStores
    /\ solTransfer = NoSolTransfer
    /\ watch = NoWatch
    /\ connection = NoConnection

CacheNext ==
    \/ \E cache \in Caches : setLatestBlockhashCache(cache)
    \/ Tick
    \/ \E l \in Lifetimes : prepare(FALSE, <<>>, l)
    \/ \E p \in BagToSet(pending), ok \in BOOLEAN, v \in Values : prepareSettled(p, ok, v)
    \/ \E l \in Lifetimes : prepareAndSend(FALSE, <<>>, l)
    \/ \E p \in BagToSet(pending), ok \in BOOLEAN, v \in Values : prepareAndSendSettled(p, ok, v)

CacheSpec == CacheInit /\ [][CacheNext]_vars

\* ------------------------------------------------------------------------
\* The controller driven without any override: prepare() and send() take the
\* pool's instruction list and the pool's prepared transaction
\* ------------------------------------------------------------------------
PlainNext ==
    \/ \E i \in Instr : addInstruction(i)
    \/ \E s \in InstrLists : addInstructions(s)
    \/ \E s \in InstrLists : replaceInstructions(s)
    \/ clearInstructions
    \/ \E index \in -1..MaxInstr : removeInstruction(index)
    \/ reset
    \/ prepare(FALSE, <<>>, NoLifetime)
    \/ \E p \in BagToSet(pending), ok \in BOOLEAN, v \in Values : prepareSettled(p, ok, v)
    \/ send(FALSE, NoPrepared)
    \/ \E p \in BagToSet(pending), ok \in BOOLEAN, v \in Values : sendSettled(p, ok, v)

PlainSpec == Init /\ [][PlainNext]_vars

\* ------------------------------------------------------------------------
\* Signers. A wallet session is known by what the wallet exposes, a plain signer
\* by the interfaces it implements.
\* ------------------------------------------------------------------------
WalletSessions == {"walletSign", "walletSignAndSend", "walletSendOnly", "walletNone"}

isWalletSession(value) == value \in WalletSessions

createWalletTransactionSigner_PrefersSend(session) ==
    IF session = "walletSign"
    THEN "partial"
    ELSE IF session \in {"walletSignAndSend", "walletSendOnly"} THEN "send" ELSE "throws"

\* the mode of the wrapped signer; "throws" when the wallet can neither sign nor send
createWalletTransactionSigner(session) ==
    IF session \in {"walletSign", "walletSignAndSend"}
    THEN "partial"
    ELSE IF session = "walletSendOnly" THEN "send" ELSE "throws"

resolveSignerMode(signer) ==
    IF signer = "partialSigner"
    THEN "partial"
    ELSE IF signer = "sendingSigner" THEN "send" ELSE "partial"

\* a wallet that only sends is wrapped into a sending signer
isTransactionSendingSigner(signer) ==
    signer \in {"sendingSigner", "walletSendOnly", "feePayerSendingSigner"}

WalletFrame == UNCHANGED <<poolVars, spl, tx, cluster, numeric, stores, solTransfer, watch, connection>>

\* createWalletTransactionSigner(session, config) is called: the wrapped signer keeps the
\* wallet function bound at this moment, and the mode is returned beside it
createWalletTransactionSignerCalled(session, commitment) ==
    /\ wallet.createdFrom = "none"
    /\ LET mode == createWalletTransactionSigner(session) IN
       wallet' = IF mode = "throws"
                 THEN [wallet EXCEPT
                          !.session = session, !.createdFrom = session,
                          !.error = "Wallet session does not support signing or sending transactions."]
                 ELSE [wallet EXCEPT
                          !.session = session, !.createdFrom = session,
                          !.commitment = commitment, !.mode = mode,
                          !.bound = IF mode = "partial" THEN "signTransaction"
                                                        ELSE "sendTransaction"]
    /\ WalletFrame

\* the wallet session object is the caller's: what it exposes may change afterwards
sessionChanged(session) ==
    /\ wallet.createdFrom # "none"
    /\ session # wallet.session
    /\ wallet' = [wallet EXCEPT !.session = session]
    /\ WalletFrame

\* A transaction is its message bytes and its signature dictionary; the dictionary is
\* known by what it holds for the address of the wallet account and for one other signer.
NoSignatures == [wallet |-> "absent", other |-> "absent"]

WalletTransactions ==
    {[messageBytes |-> "a", signatures |-> NoSignatures],
     [messageBytes |-> "b", signatures |-> [wallet |-> "absent", other |-> "signatureOther"]],
     [messageBytes |-> "c", signatures |-> [wallet |-> "signatureOld", other |-> "absent"]]}

\* what a wallet may resolve signTransaction with
WalletSigned ==
    [messageBytes : {"a", "w"},
     signatures : [wallet : {"absent", "signatureWallet"}, other : {"absent", "signatureNew"}]]

\* { ...castTransaction.signatures, ...signed.signatures }
spreadSignatures(first, second) ==
    [wallet |-> IF second.wallet # "absent" THEN second.wallet ELSE first.wallet,
     other |-> IF second.other # "absent" THEN second.other ELSE first.other]

\* const signature = signed.signatures[address]; if (!signature) throw
hasExpectedSignature_AnySignature(signed) ==
    signed.signatures.wallet # "absent" \/ signed.signatures.other # "absent"

hasExpectedSignature(signed) == signed.signatures.wallet # "absent"

mergedTransaction(castTransaction, signed) ==
    [messageBytes |-> signed.messageBytes,
     signatures |-> spreadSignatures(castTransaction.signatures, signed.signatures)]

\* the loop reaches transactions[index]: the bound signTransaction is called with it and
\* awaited; past the last transaction the frozen list is returned
signNext(s, index) ==
    IF index > Len(s.transactions)
    THEN [s EXCEPT !.pc = "idle", !.outcome = "signed",
                   !.hasReturned = TRUE, !.returned = s.signedTransactions]
    ELSE [s EXCEPT !.pc = "signing", !.calls = @ + 1, !.called = "signTransaction",
                   !.options = "none",
                   !.signCalls = Append(@, s.inputNow[index])]

\* modifyAndSignTransactions (signTransactions goes through it) on the partial signer
modifyAndSignTransactions(transactions) ==
    /\ wallet.bound = "signTransaction"
    /\ wallet.pc = "idle"
    /\ wallet.calls + Len(transactions) <= MaxWalletCalls
    /\ wallet' = signNext([wallet EXCEPT
                              !.transactions = transactions, !.inputNow = transactions,
                              !.signCalls = <<>>, !.signed = <<>>,
                              !.signedTransactions = <<>>, !.outcome = "none",
                              !.hasReturned = FALSE, !.returned = <<>>], 1)
    /\ WalletFrame

\* the awaited signTransaction rejects: the rejection leaves modifyAndSignTransactions
signTransactionRejected ==
    /\ wallet.pc = "signing"
    /\ wallet' = [wallet EXCEPT !.pc = "idle", !.outcome = "rejected"]
    /\ WalletFrame

\* the awaited signTransaction resolves: the signature of the wallet address is
\* required, the merged transaction is pushed and the loop goes on
signTransactionResolved(signed) ==
    /\ wallet.pc = "signing"
    /\ LET index == Len(wallet.signCalls)
           got == [wallet EXCEPT !.signed = Append(@, signed)]
       IN  wallet' =
               IF ~hasExpectedSignature(signed)
               THEN [got EXCEPT
                        !.pc = "idle",
                        !.outcome = "Wallet did not populate the expected fee payer signature."]
               ELSE signNext([got EXCEPT
                                 !.signedTransactions =
                                     Append(@, mergedTransaction(wallet.inputNow[index], signed))],
                             index + 1)
    /\ WalletFrame

\* signAndSendTransactions on the sending signer: the bound sendTransaction is awaited
\* with { commitment } when a commitment was configured, else with undefined
signAndSendTransactions(outcome) ==
    /\ wallet.bound = "sendTransaction"
    /\ wallet.calls < MaxWalletCalls
    /\ wallet' = [wallet EXCEPT !.calls = @ + 1, !.called = "sendTransaction",
                                !.options = IF wallet.commitment # "undefined"
                                            THEN wallet.commitment ELSE "undefined",
                                !.outcome = outcome]
    /\ WalletFrame

WalletTransactionLists ==
    {<<>>} \cup {<<t>> : t \in WalletTransactions}
        \cup {<<t, u>> : t, u \in WalletTransactions}

WalletNext ==
    \/ /\ wallet.createdFrom = "none"
       /\ \E session \in WalletSessions, commitment \in {"undefined", "processed"} :
              createWalletTransactionSignerCalled(session, commitment)
    \/ \E session \in WalletSessions : sessionChanged(session)
    \/ \E transactions \in WalletTransactionLists : modifyAndSignTransactions(transactions)
    \/ signTransactionRejected
    \/ \E signed \in WalletSigned : signTransactionResolved(signed)
    \/ \E outcome \in {"signature", "rejected"} : signAndSendTransactions(outcome)

WalletSpec == Init /\ [][WalletNext]_vars

\* ------------------------------------------------------------------------
\* SPL token helper: prepareTransfer, sendPreparedTransfer, sendTransfer.
\* spl.pc is the await the call is suspended at; spl.log lists the remote
\* calls and their failures in the order they happened.
\* ------------------------------------------------------------------------
SplAuthorities == {"walletSign", "walletSendOnly", "walletNone", "partialSigner", "sendingSigner"}

SplFrame == UNCHANGED <<poolVars, tx, wallet, cluster, numeric, stores, solTransfer, watch, connection>>

Logged(s, event, outcome) ==
    [s EXCEPT !.log = Append(@, [event |-> event, attempt |-> s.attempt, outcome |-> outcome])]

\* the promise of sendTransfer settles
SplResolved(s) == [s EXCEPT !.pc = "done", !.result = "signature"]

SplRejected(s, error) == [s EXCEPT !.pc = "done", !.result = "rejected", !.error = error]

\* resolveSigner: the mode a wallet session or a plain signer is sent with
resolveSigner(authority) ==
    IF isWalletSession(authority)
    THEN createWalletTransactionSigner(authority)
    ELSE resolveSignerMode(authority)

\* sendPreparedTransfer up to its first await: prepared.message goes to the signer
sendPreparedTransfer(s, preparedTransfer) ==
    IF preparedTransfer.mode = "send"
    THEN Logged([s EXCEPT !.pc = "signAndSend", !.sending = preparedTransfer],
                "signAndSend", "called")
    ELSE Logged([s EXCEPT !.pc = "sign", !.sending = preparedTransfer], "sign", "called")

\* prepareTransfer returns: sendTransfer keeps the result and sends it
transferPrepared(s) ==
    LET preparedTransfer ==
            [lifetime |-> s.lifetime, mode |-> resolveSigner(s.request.authority),
             createAta |-> s.createAta]
    IN  IF s.attempt = 1
        THEN sendPreparedTransfer([s EXCEPT !.prepared = preparedTransfer], preparedTransfer)
        ELSE sendPreparedTransfer([s EXCEPT !.retriedPrepared = preparedTransfer],
                                  preparedTransfer)

\* prepareTransfer from the amount conversion to the destination account lookup
amountResolved(s) ==
    IF ~s.request.amountValid
    THEN SplRejected(s, "InvalidAmount")
    ELSE IF s.request.ensureDestinationAta
         THEN Logged([s EXCEPT !.pc = "getAccountInfo"], "getAccountInfo", "called")
         ELSE transferPrepared([s EXCEPT !.createAta = FALSE])

\* getTokenMath / resolveDecimals: the mint is fetched once per helper
getTokenMath(s) ==
    IF s.cachedDecimals
    THEN amountResolved(s)
    ELSE Logged([s EXCEPT !.pc = "fetchMint"], "fetchMint", "called")

\* prepareTransfer after resolveLifetime returned
lifetimeResolved(s, lifetime) ==
    IF resolveSigner(s.request.authority) = "throws"
    THEN SplRejected(s, "WalletUnsupported")
    ELSE getTokenMath([s EXCEPT !.lifetime = lifetime])

\* resolveLifetime: the fallback when there is one, else a getLatestBlockhash call
resolveLifetime(s, fallback) ==
    IF fallback # NoSplLifetime
    THEN lifetimeResolved(s, fallback)
    ELSE Logged([s EXCEPT !.pc = "getLatestBlockhash"], "getLatestBlockhash", "called")

prepareTransfer(s, config) ==
    resolveLifetime([s EXCEPT !.request = config, !.attempt = @ + 1], config.lifetime)

\* { ...config, lifetime: undefined }
retryConfig_KeepsLifetime(config) == config

retryConfig(config) == [config EXCEPT !.lifetime = NoSplLifetime]

\* the catch clause of sendTransfer; a failure of the retry is outside the try block
sendTransferCatch_AnyError(s, error) ==
    IF s.attempt = 1
    THEN prepareTransfer(s, retryConfig(s.config))
    ELSE SplRejected(s, error)

sendTransferCatch(s, error) ==
    IF s.attempt = 1 /\ error = "AlreadyProcessed"
    THEN prepareTransfer(s, retryConfig(s.config))
    ELSE SplRejected(s, error)

\* sendTransfer(config, options) is called
sendTransfer(config) ==
    /\ spl.pc \in {"idle", "done"}
    /\ spl' = prepareTransfer([SplIdle EXCEPT !.call = "sendTransfer", !.config = config,
                                              !.cachedDecimals = spl.cachedDecimals], config)
    /\ SplFrame

\* runtime.rpc.getLatestBlockhash({ commitment }).send() settles
getLatestBlockhashSettled(ok) ==
    /\ spl.pc = "getLatestBlockhash"
    /\ spl' = IF ok
              THEN lifetimeResolved(spl, RpcSplLifetime(Len(spl.log)))
              ELSE SplRejected(Logged(spl, "getLatestBlockhash", "RpcError"), "RpcError")
    /\ SplFrame

\* fetchMint(runtime.rpc, mintAddress, { commitment }) settles
fetchMintSettled(ok) ==
    /\ spl.pc = "fetchMint"
    /\ spl' = IF ~ok
              THEN SplRejected(Logged(spl, "fetchMint", "RpcError"), "RpcError")
              ELSE IF spl.call = "fetchBalance"
              THEN Logged([spl EXCEPT !.cachedDecimals = TRUE, !.pc = "getTokenAccountBalance"],
                          "getTokenAccountBalance", "called")
              ELSE amountResolved([spl EXCEPT !.cachedDecimals = TRUE])
    /\ SplFrame

\* fetchBalance(owner, commitment) is called: the decimals are resolved, from the mint
\* when they are not cached, before the balance is asked for
fetchBalance ==
    /\ spl.pc \in {"idle", "done"}
    /\ LET s == [SplIdle EXCEPT !.call = "fetchBalance", !.cachedDecimals = spl.cachedDecimals]
       IN  spl' = IF s.cachedDecimals
                  THEN Logged([s EXCEPT !.pc = "getTokenAccountBalance"],
                              "getTokenAccountBalance", "called")
                  ELSE Logged([s EXCEPT !.pc = "fetchMint"], "fetchMint", "called")
    /\ SplFrame

\* fetchBalance: runtime.rpc.getTokenAccountBalance(...).send() settles inside the try
\* block; the catch clause returns a zero balance with exists: false
getTokenAccountBalanceSettled(ok) ==
    /\ spl.pc = "getTokenAccountBalance"
    /\ spl' = IF ok
              THEN [spl EXCEPT !.pc = "done", !.result = "balance", !.exists = TRUE]
              ELSE [Logged(spl, "getTokenAccountBalance", "RpcError") EXCEPT
                       !.pc = "done", !.result = "balance", !.exists = FALSE]
    /\ SplFrame

\* runtime.rpc.getAccountInfo(destinationAta, ...).send() settles
getAccountInfoSettled(ok, exists) ==
    /\ spl.pc = "getAccountInfo"
    /\ spl' = IF ok
              THEN transferPrepared([spl EXCEPT !.createAta = ~exists])
              ELSE SplRejected(Logged(spl, "getAccountInfo", "RpcError"), "RpcError")
    /\ SplFrame

SubmissionOutcomes == {"ok", "AlreadyProcessed", "RpcError"}

\* signAndSendTransactionMessageWithSigners settles
signAndSendSettled(outcome) ==
    /\ spl.pc = "signAndSend"
    /\ spl' = IF outcome = "ok"
              THEN SplResolved(Logged(spl, "signAndSend", "ok"))
              ELSE sendTransferCatch(Logged(spl, "signAndSend", outcome), outcome)
    /\ SplFrame

\* signTransactionMessageWithSigners settles; the wire transaction goes to sendTransaction
signSettled(ok) ==
    /\ spl.pc = "sign"
    /\ spl' = IF ok
              THEN Logged([spl EXCEPT !.pc = "sendTransaction"], "sendTransaction", "called")
              ELSE sendTransferCatch(Logged(spl, "sign", "SignerError"), "SignerError")
    /\ SplFrame

\* runtime.rpc.sendTransaction(wire, ...).send() settles
sendTransactionSettled(outcome) ==
    /\ spl.pc = "sendTransaction"
    /\ spl' = IF outcome = "ok"
              THEN SplResolved(Logged(spl, "sendTransaction", "ok"))
              ELSE sendTransferCatch(Logged(spl, "sendTransaction", outcome), outcome)
    /\ SplFrame

SplConfigs ==
    [lifetime : {NoSplLifetime, ConfigSplLifetime}, authority : SplAuthorities,
     amountValid : BOOLEAN, ensureDestinationAta : BOOLEAN]

\* createSplTokenHelper(runtime, config): config.decimals may be given
SplInit ==
    /\ createTransactionPoolController
    /\ spl \in {SplIdle, [SplIdle EXCEPT !.cachedDecimals = TRUE]}
    /\ tx = TxIdle
    /\ wallet = NoWalletSigner
    /\ cluster = createClusterState
    /\ numeric = NoNumeric
    /\ stores = NoStores
    /\ solTransfer = NoSolTransfer
    /\ watch = NoWatch
    /\ connection = NoConnection

SplNext ==
    \/ \E config \in SplConfigs : sendTransfer(config)
    \/ fetchBalance
    \/ \E ok \in BOOLEAN : getTokenAccountBalanceSettled(ok)
    \/ \E ok \in BOOLEAN : getLatestBlockhashSettled(ok)
    \/ \E ok \in BOOLEAN : fetchMintSettled(ok)
    \/ \E ok \in BOOLEAN, exists \in BOOLEAN : getAccountInfoSettled(ok, exists)
    \/ \E outcome \in SubmissionOutcomes : signAndSendSettled(outcome)
    \/ \E ok \in BOOLEAN : signSettled(ok)
    \/ \E outcome \in SubmissionOutcomes : sendTransactionSettled(outcome)

SplSpec == SplInit /\ [][SplNext]_vars

\* ------------------------------------------------------------------------
\* Compute unit tuner (prepareTransaction) and Transaction Helper (prepare,
\* send, prepareAndSend). tx.pc is the await the call is suspended at; tx.log
\* lists the remote calls, the signer calls and the returns of prepare and of
\* the tuner in the order they happened, each with the message it carried.
\* ------------------------------------------------------------------------
TxFrame == UNCHANGED <<poolVars, spl, wallet, cluster, numeric, stores, solTransfer, watch, connection>>

ClusterFrame == UNCHANGED <<poolVars, spl, tx, wallet, numeric, stores, solTransfer, watch, connection>>

NumericFrame == UNCHANGED <<poolVars, spl, tx, wallet, cluster, stores, solTransfer, watch, connection>>

OtherVars == <<poolVars, spl, tx, wallet, cluster, numeric>>

TxLogged(s, event, outcome, message) ==
    [s EXCEPT !.log = Append(@, [event |-> event, outcome |-> outcome, message |-> message])]

\* the promise of the call settles
TxResolved(s) == [s EXCEPT !.pc = "done", !.result = "resolved"]

TxRejected(s, error) == [s EXCEPT !.pc = "done", !.result = "rejected", !.error = error]

\* send: const commitment = options.commitment ?? prepared.commitment
preflightCommitment_PreparedOnly(options, preparedTx) == preparedTx.commitment

preflightCommitment(options, preparedTx) ==
    IF options.commitment # "undefined" THEN options.commitment ELSE preparedTx.commitment

\* helper.send up to its first await: the path is taken from prepared.mode
helper_send(s, preparedTx) ==
    IF preparedTx.mode = "send"
    THEN TxLogged([s EXCEPT !.pc = "signAndSend", !.sending = preparedTx],
                  "signAndSend", "called", preparedTx.message)
    ELSE TxLogged([s EXCEPT !.pc = "sign", !.sending = preparedTx],
                  "sign", "called", preparedTx.message)

isComputeUnitLimitInstruction(instruction) ==
    instruction.program = "computeBudget" /\ instruction.kind = "SetComputeUnitLimit"

\* transaction.instructions.findIndex(isComputeUnitLimitInstruction), counted from 0
computeLimitIndex(instructionList) ==
    IF \E i \in DOMAIN instructionList : isComputeUnitLimitInstruction(instructionList[i])
    THEN (CHOOSE i \in DOMAIN instructionList :
              /\ isComputeUnitLimitInstruction(instructionList[i])
              /\ \A j \in 1..(i - 1) : ~isComputeUnitLimitInstruction(instructionList[j])) - 1
    ELSE -1

\* the largest power of two that is not above n, for n >= 1
RECURSIVE floorPowerOfTwo(_)
floorPowerOfTwo(n) == IF n < 2 THEN 1 ELSE 2 * floorPowerOfTwo(n \div 2)

\* Math.ceil(units * multiplier) in IEEE 754 doubles, the multiplier in tenths. Of the
\* multipliers used here only 1.1 is not a binary fraction: the double 1.1 is
\* 11/10 + 0.4 * 2^-52, so the exact product is 11u/10 + u * 0.4 * 2^-52. When 11u/10 is
\* not an integer the excess and the rounding stay inside the unit interval and the
\* ceiling is that of 11u/10. When u = 10k the excess is 4k * 2^-52 against a spacing of
\* 2^(e-52) at N = 11k, 2^e <= N < 2^(e+1): the product rounds up to the next double
\* above N when 8k > 2^e (a tie, 8k = 2^e, goes to N, whose last bit is even), and the
\* ceiling is then N + 1.
ceilOfProduct(units, multiplierTenths) ==
    IF multiplierTenths = 11 /\ units % 10 = 0
    THEN LET n == 11 * (units \div 10)
         IN  IF 8 * (units \div 10) > floorPowerOfTwo(n) THEN n + 1 ELSE n
    ELSE (units * multiplierTenths + 9) \div 10

computeUnits_NoFallback(unitsFromSimulation, multiplierTenths) ==
    LET scaled == ceilOfProduct(unitsFromSimulation, multiplierTenths)
    IN  IF scaled > 1 THEN scaled ELSE 1

\* Math.max(1, units ? Math.ceil(units * multiplier) : 200_000), the multiplier in tenths
computeUnits(unitsFromSimulation, multiplierTenths) ==
    LET scaled == IF unitsFromSimulation # 0
                  THEN ceilOfProduct(unitsFromSimulation, multiplierTenths)
                  ELSE FallbackComputeUnits
    IN  IF scaled > 1 THEN scaled ELSE 1

transactionTuned_LogsInput(s) ==
    LET logged == IF s.config.logRequest
                  THEN TxLogged(s, "logRequest", "called", s.input)
                  ELSE s
        returned == TxLogged(logged, "prepareTransaction", "returned", s.transaction)
    IN  IF s.call = "prepareAndSend"
        THEN helper_send(returned, [s.prepared EXCEPT !.message = s.transaction])
        ELSE TxResolved(returned)

\* variant: the limit instruction is spliced into the instruction list of the input
limitWritten_InPlace(s, instruction) ==
    LET index == computeLimitIndex(s.transaction.instructions)
        nextInstructions == [s.transaction.instructions EXCEPT ![index + 1] = instruction]
    IN  IF index = -1
        THEN [s EXCEPT !.transaction.instructions = Append(@, instruction), !.fresh = TRUE]
        ELSE [s EXCEPT !.transaction.instructions = nextInstructions,
                       !.inputObject.instructions = nextInstructions]

\* prepareTransaction: the new limit instruction is appended by
\* appendTransactionMessageInstruction, or spliced into a copy of the instruction list
\* which a copy of the message is given; either way transaction is a new object
limitWritten(s, instruction) ==
    LET index == computeLimitIndex(s.transaction.instructions)
        nextInstructions ==
            IF index = -1
            THEN Append(s.transaction.instructions, instruction)
            ELSE [s.transaction.instructions EXCEPT ![index + 1] = instruction]
    IN  [s EXCEPT !.transaction.instructions = nextInstructions, !.fresh = TRUE]

\* prepareTransaction returns its transaction, after logRequest when there is one
transactionTuned(s) ==
    LET logged == IF s.config.logRequest
                  THEN TxLogged(s, "logRequest", "called", s.transaction)
                  ELSE s
        returned == TxLogged(logged, "prepareTransaction", "returned", s.transaction)
    IN  IF s.call = "prepareAndSend"
        THEN helper_send(returned, [s.prepared EXCEPT !.message = s.transaction])
        ELSE TxResolved(returned)

shouldResetBlockhash_OnlyWhenTrue(config) == config.blockhashReset = "true"

\* config.blockhashReset !== false
shouldResetBlockhash(config) == config.blockhashReset # "false"

\* prepareTransaction from the lifetime refresh on
refreshLifetime(s) ==
    IF shouldResetBlockhash(s.config) \/ s.transaction.lifetime = NoBlockhash
    THEN TxLogged([s EXCEPT !.pc = "tuner.getLatestBlockhash"],
                  "getLatestBlockhash", "called", NoMessage)
    ELSE transactionTuned(s)

\* estimateComputeUnits up to its first await
estimateComputeUnits(s) ==
    IF s.transaction.lifetime = NoBlockhash
    THEN TxLogged([s EXCEPT !.pc = "estimate.getLatestBlockhash"],
                  "getLatestBlockhash", "called", NoMessage)
    ELSE TxLogged([s EXCEPT !.pc = "simulateTransaction"],
                  "simulateTransaction", "called", s.transaction)

\* prepareTransaction(config) up to its first await
prepareTransaction(s, config, transaction) ==
    LET t == [s EXCEPT !.config = config, !.transaction = transaction, !.input = transaction,
                       !.inputObject = transaction, !.fresh = FALSE]
    IN  IF computeLimitIndex(transaction.instructions) = -1 \/ config.computeUnitLimitReset
        THEN estimateComputeUnits(t)
        ELSE refreshLifetime(t)

\* { blockhashReset: prepareConfig.blockhashReset ?? false, ...prepareConfig }
tunerConfig(overrides) ==
    [blockhashReset |-> IF overrides.given = "undefined" \/ overrides.blockhashReset = "absent"
                        THEN "false"
                        ELSE overrides.blockhashReset,
     computeUnitLimitReset |-> overrides.given = "options" /\ overrides.computeUnitLimitReset,
     logRequest |-> overrides.given = "options" /\ overrides.logRequest,
     computeUnitLimitMultiplier |-> -1]

\* prepareAndSend after prepare returned
prepareAndSendPrepared_SendsUntuned(s, preparedTx) == helper_send(s, preparedTx)

prepareAndSendPrepared_AlwaysTunes(s, preparedTx) ==
    prepareTransaction(s, tunerConfig(s.request.prepareTransaction), preparedTx.message)

prepareAndSendPrepared(s, preparedTx) ==
    IF s.request.prepareTransaction.given = "false"
    THEN helper_send(s, preparedTx)
    ELSE prepareTransaction(s, tunerConfig(s.request.prepareTransaction), preparedTx.message)

hasSetComputeUnitLimitInstruction(instructionList) ==
    \E i \in DOMAIN instructionList :
        /\ instructionList[i].program = "computeBudget"
        /\ instructionList[i].kind = "SetComputeUnitLimit"

hasSetComputeUnitPriceInstruction(instructionList) ==
    \E i \in DOMAIN instructionList :
        /\ instructionList[i].program = "computeBudget"
        /\ instructionList[i].kind = "SetComputeUnitPrice"

instructionUsesAddressLookup(instruction) ==
    instruction.lookup \in {"addressTableLookup", "addressTableLookups"}

resolveVersion_FirstInstructionOnly(requested, instructionList) ==
    IF requested \notin {"undefined", "0", "auto"}
    THEN requested
    ELSE IF Len(instructionList) > 0 /\ instructionUsesAddressLookup(instructionList[1])
         THEN "0"
         ELSE "legacy"

\* requested && requested !== 'auto': undefined and the version 0 are both falsy
resolveVersion(requested, instructionList) ==
    IF requested \notin {"undefined", "0", "auto"}
    THEN requested
    ELSE IF \E i \in DOMAIN instructionList : instructionUsesAddressLookup(instructionList[i])
         THEN "0"
         ELSE "legacy"

\* signer objects given as the fee payer: a partial signer and a sending signer, both
\* of an address that is not the authority's
FeePayerSigners == {"feePayerSigner", "feePayerSendingSigner"}

resolveFeePayerAddress_NeverThrows(feePayer, authoritySigner) ==
    [address |-> IF feePayer = "none" THEN "authorityAddress" ELSE feePayer,
     signer |-> authoritySigner]

\* the address of the fee payer and its signer, or "throws"
resolveFeePayerAddress(feePayer, authoritySigner) ==
    IF feePayer = "none" /\ authoritySigner = "none"
    THEN [address |-> "throws", signer |-> "none"]
    ELSE IF feePayer \in FeePayerSigners
    THEN [address |-> "feePayerAddress", signer |-> feePayer]
    ELSE IF feePayer # "none"
    THEN IF authoritySigner # "none" /\ feePayer = "authorityAddress"
         THEN [address |-> feePayer, signer |-> authoritySigner]
         ELSE [address |-> feePayer, signer |-> "none"]
    ELSE [address |-> "authorityAddress", signer |-> authoritySigner]

resolveComputeUnitLimit_IgnoresExisting(request, instructionList) ==
    request.computeUnitLimit

\* -1 stands for undefined
resolveComputeUnitLimit(request, instructionList) ==
    IF request.computeUnitLimit = -1 \/ hasSetComputeUnitLimitInstruction(instructionList)
    THEN -1
    ELSE request.computeUnitLimit

resolveComputeUnitPrice(request, instructionList) ==
    IF request.computeUnitPrice = -1 \/ hasSetComputeUnitPriceInstruction(instructionList)
    THEN -1
    ELSE request.computeUnitPrice

\* the fallback is the commitment the store was created with
normaliseCommitment_CapturedAtConstruction(request, getFallbackCommitment) ==
    IF request.commitment # "undefined"
    THEN request.commitment
    ELSE createClusterState.commitment

\* request.commitment ?? getFallbackCommitment(); getFallbackCommitment is the value the
\* getter returns when it is called
normaliseCommitment(request, getFallbackCommitment) ==
    IF request.commitment # "undefined" THEN request.commitment ELSE getFallbackCommitment

\* variant: the prefix is put behind the caller's instructions
instructionSequence_PrefixLast(prefixInstructions, baseInstructions) ==
    baseInstructions \o prefixInstructions

\* const instructionSequence = [...prefixInstructions, ...baseInstructions]
instructionSequence(prefixInstructions, baseInstructions) ==
    prefixInstructions \o baseInstructions

\* prepare from the abort check after the lifetime is known to its return
prepareAssembled(s, lifetime) ==
    LET resolvedComputeUnitLimit == resolveComputeUnitLimit(s.request, s.request.instructions)
        computeUnitPrice == resolveComputeUnitPrice(s.request, s.request.instructions)
        prefixInstructions ==
            (IF resolvedComputeUnitLimit # -1
             THEN <<getSetComputeUnitLimitInstruction(resolvedComputeUnitLimit)>>
             ELSE <<>>)
            \o (IF computeUnitPrice # -1
                THEN <<getSetComputeUnitPriceInstruction(computeUnitPrice)>>
                ELSE <<>>)
        \* pipe(createTransactionMessage, setTransactionMessageFeePayer(Signer),
        \*      appendTransactionMessageInstructions, setTransactionMessageLifetimeUsingBlockhash)
        created == [NoMessage EXCEPT !.version = s.version]
        withFeePayer == [created EXCEPT !.feePayer = s.feePayer,
                                        !.feePayerSigner = s.feePayerSigner]
        withInstructions ==
            [withFeePayer EXCEPT !.instructions =
                instructionSequence(prefixInstructions, s.request.instructions)]
        finalMessage == [withInstructions EXCEPT !.lifetime = lifetime]
        preparedTx ==
            [commitment |-> s.commitment,
             computeUnitLimit |-> resolvedComputeUnitLimit,
             computeUnitPrice |-> computeUnitPrice, feePayer |-> s.feePayer,
             instructions |-> s.request.instructions, lifetime |-> lifetime,
             message |-> finalMessage, mode |-> s.mode, version |-> s.version]
        returned == TxLogged([s EXCEPT !.prepared = preparedTx,
                                       !.assembly = <<created, withFeePayer, withInstructions,
                                                      finalMessage>>],
                             "prepare", "returned", finalMessage)
    IN  IF s.aborted
        THEN TxRejected(s, "Aborted")
        ELSE IF s.call = "prepare"
             THEN TxResolved(returned)
             ELSE prepareAndSendPrepared(returned, preparedTx)

\* prepare(request) up to its first await
helper_prepare(s, request) ==
    LET authorityMode ==
            IF request.authority = "none"
            THEN "partial"
            ELSE IF isWalletSession(request.authority)
                 THEN createWalletTransactionSigner(request.authority)
                 ELSE resolveSignerMode(request.authority)
        payer == resolveFeePayerAddress(request.feePayer, request.authority)
        mode == IF /\ authorityMode = "send"
                   /\ (payer.signer = "none" \/ ~isTransactionSendingSigner(payer.signer))
                THEN "partial"
                ELSE authorityMode
        commitment == normaliseCommitment(request, cluster.commitment)
        t == [s EXCEPT !.request = request, !.mode = mode, !.feePayer = payer.address,
                       !.commitment = commitment, !.fallback = cluster.commitment,
                       !.feePayerSigner = payer.signer,
                       !.version = resolveVersion(request.version, request.instructions)]
    IN  IF Len(request.instructions) = 0
        THEN TxRejected([s EXCEPT !.request = request], "EmptyInstructions")
        ELSE IF s.aborted
        THEN TxRejected([s EXCEPT !.request = request], "Aborted")
        ELSE IF authorityMode = "throws"
        THEN TxRejected([s EXCEPT !.request = request], "WalletUnsupported")
        ELSE IF payer.address = "throws"
        THEN TxRejected([s EXCEPT !.request = request], "NoFeePayer")
        ELSE IF request.lifetime # NoBlockhash
        THEN prepareAssembled(t, request.lifetime)
        ELSE TxLogged([t EXCEPT !.pc = "prepare.getLatestBlockhash"],
                      "getLatestBlockhash", "called", NoMessage)

\* the helper's prepare(request) is called; the abort signal may have fired already
helper_prepareCalled(request, aborted) ==
    /\ tx.pc = "idle"
    /\ aborted => request.abortSignal
    /\ tx' = helper_prepare([TxIdle EXCEPT !.call = "prepare", !.aborted = aborted], request)
    /\ TxFrame

\* prepare is called once more with the request object of the call that just returned;
\* previous keeps what that call returned
helper_prepareAgain ==
    /\ tx.pc = "done"
    /\ tx.call = "prepare"
    /\ tx.result = "resolved"
    /\ tx.previous = NoTxPrepared
    /\ tx' = helper_prepare([TxIdle EXCEPT !.call = "prepare", !.previous = tx.prepared],
                            tx.request)
    /\ TxFrame

\* the helper's prepareAndSend(request, options) is called
helper_prepareAndSend(request, aborted) ==
    /\ tx.pc = "idle"
    /\ aborted => request.abortSignal
    /\ tx' = helper_prepare([TxIdle EXCEPT !.call = "prepareAndSend", !.aborted = aborted],
                            request)
    /\ TxFrame

\* the helper's send(prepared, options) is called on a prepared transaction of the caller
helper_sendCalled(preparedTx, options) ==
    /\ tx.pc = "idle"
    /\ tx' = helper_send([TxIdle EXCEPT !.call = "send", !.prepared = preparedTx,
                                        !.options = options], preparedTx)
    /\ TxFrame

\* prepareTransaction(config) is called on a message of the caller
prepareTransactionCalled(config, transaction) ==
    /\ tx.pc = "idle"
    /\ tx' = prepareTransaction([TxIdle EXCEPT !.call = "prepareTransaction"], config,
                                transaction)
    /\ TxFrame

\* the caller aborts the signal it passed in the request
abort ==
    /\ tx.pc \notin {"idle", "done"}
    /\ tx.request.abortSignal
    /\ ~tx.aborted
    /\ tx' = [tx EXCEPT !.aborted = TRUE, !.abortedAt = tx.pc]
    /\ TxFrame

prepareLifetimeSettled_IgnoresAbort(ok) ==
    /\ tx.pc = "prepare.getLatestBlockhash"
    /\ tx' = IF ok
             THEN prepareAssembled([tx EXCEPT !.aborted = FALSE], RpcBlockhash(Len(tx.log)))
             ELSE TxRejected(TxLogged(tx, "getLatestBlockhash", "RpcError", NoMessage),
                             "RpcError")
    /\ TxFrame

\* prepare: runtime.rpc.getLatestBlockhash({ commitment }).send({ abortSignal }) settles
prepareLifetimeSettled(ok) ==
    /\ tx.pc = "prepare.getLatestBlockhash"
    /\ tx' = IF ok
             THEN prepareAssembled(tx, RpcBlockhash(Len(tx.log)))
             ELSE TxRejected(TxLogged(tx, "getLatestBlockhash", "RpcError", NoMessage),
                             "RpcError")
    /\ TxFrame

\* estimateComputeUnits: rpc.getLatestBlockhash().send() settles for a message without lifetime
estimateLifetimeSettled(ok) ==
    /\ tx.pc = "estimate.getLatestBlockhash"
    /\ tx' = IF ok
             THEN TxLogged([tx EXCEPT !.pc = "simulateTransaction"],
                           "simulateTransaction", "called",
                           [tx.transaction EXCEPT !.lifetime = RpcBlockhash(Len(tx.log))])
             ELSE TxRejected(TxLogged(tx, "getLatestBlockhash", "RpcError", NoMessage),
                             "RpcError")
    /\ TxFrame

\* estimateComputeUnits: rpc.simulateTransaction(...).send() settles; the limit
\* instruction replaces the one of the message or is appended
simulateTransactionSettled(ok, unitsConsumed) ==
    /\ tx.pc = "simulateTransaction"
    /\ tx' = IF ok
             THEN LET multiplier ==
                          IF tx.config.computeUnitLimitMultiplier # -1
                          THEN tx.config.computeUnitLimitMultiplier
                          ELSE DefaultMultiplierTenths
                      \* Number(value.unitsConsumed ?? 0) || 0
                      unitsFromSimulation == IF unitsConsumed = -1 THEN 0 ELSE unitsConsumed
                      instruction ==
                          getSetComputeUnitLimitInstruction(
                              computeUnits(unitsFromSimulation, multiplier))
                  IN  refreshLifetime(limitWritten([tx EXCEPT !.unitsConsumed = unitsConsumed],
                                                   instruction))
             ELSE TxRejected(TxLogged(tx, "simulateTransaction", "RpcError", NoMessage),
                             "RpcError")
    /\ TxFrame

\* prepareTransaction: config.rpc.getLatestBlockhash().send() settles
tunerLifetimeSettled(ok) ==
    /\ tx.pc = "tuner.getLatestBlockhash"
    /\ tx' = IF ok
             THEN transactionTuned([tx EXCEPT !.transaction.lifetime =
                                                  RpcBlockhash(Len(tx.log)),
                                              !.fresh = TRUE])
             ELSE TxRejected(TxLogged(tx, "getLatestBlockhash", "RpcError", NoMessage),
                             "RpcError")
    /\ TxFrame

\* send: signAndSendTransactionMessageWithSigners settles
helper_signAndSendSettled(ok) ==
    /\ tx.pc = "signAndSend"
    /\ tx' = IF ok
             THEN TxResolved(TxLogged(tx, "signAndSend", "ok", tx.sending.message))
             ELSE TxRejected(TxLogged(tx, "signAndSend", "SignerError", tx.sending.message),
                             "SignerError")
    /\ TxFrame

\* send: sign(prepared) settles; the wire transaction goes to rpc.sendTransaction
helper_signSettled(ok) ==
    /\ tx.pc = "sign"
    /\ tx' = IF ok
             THEN TxLogged([tx EXCEPT !.pc = "sendTransaction",
                                      !.preflightCommitment =
                                          preflightCommitment(tx.options, tx.sending)],
                           "sendTransaction", "called", tx.sending.message)
             ELSE TxRejected(TxLogged(tx, "sign", "SignerError", tx.sending.message),
                             "SignerError")
    /\ TxFrame

\* send: runtime.rpc.sendTransaction(wire, ...).send() settles
helper_sendTransactionSettled(ok) ==
    /\ tx.pc = "sendTransaction"
    /\ tx' = IF ok
             THEN TxResolved(TxLogged(tx, "sendTransaction", "ok", tx.sending.message))
             ELSE TxRejected(TxLogged(tx, "sendTransaction", "RpcError", tx.sending.message),
                             "RpcError")
    /\ TxFrame

\* the requests, tuner options and simulation results the helper is driven with
TxInstructionLists ==
    {<<>>, <<AppInstruction>>, <<getSetComputeUnitLimitInstruction(1000), LookupInstruction>>}

TxOverrides ==
    {[given |-> "false", blockhashReset |-> "absent", computeUnitLimitReset |-> FALSE,
      logRequest |-> FALSE],
     [given |-> "undefined", blockhashReset |-> "absent", computeUnitLimitReset |-> FALSE,
      logRequest |-> FALSE]}
    \cup [given : {"options"}, blockhashReset : {"absent", "undefined", "true", "false"},
          computeUnitLimitReset : BOOLEAN, logRequest : {FALSE}]

TxRequests ==
    [instructions : TxInstructionLists,
     authority : {"none", "partialSigner", "sendingSigner", "walletNone"},
     feePayer : {"none", "otherAddress"},
     lifetime : {NoBlockhash, RequestBlockhash},
     version : {"undefined", "0"},
     computeUnitLimit : {-1, 5000},
     computeUnitPrice : {-1},
     abortSignal : BOOLEAN,
     commitment : {"undefined"},
     prepareTransaction : TxOverrides]

TunerConfigs ==
    [blockhashReset : {"absent", "false"}, computeUnitLimitReset : BOOLEAN,
     logRequest : BOOLEAN, computeUnitLimitMultiplier : {-1}]

TunerMessages ==
    [version : {"legacy"}, feePayer : {"otherAddress"}, feePayerSigner : {"none"},
     instructions : (TxInstructionLists \ {<<>>})
                    \cup {<<AppInstruction, getSetComputeUnitLimitInstruction(1000),
                             LookupInstruction>>},
     lifetime : {NoBlockhash, RequestBlockhash}]

UnitsConsumed == {0, 1, 500000}

TxInit ==
    /\ createTransactionPoolController
    /\ spl = SplIdle
    /\ tx = TxIdle
    /\ wallet = NoWalletSigner
    /\ cluster = createClusterState
    /\ numeric = NoNumeric
    /\ stores = NoStores
    /\ solTransfer = NoSolTransfer
    /\ watch = NoWatch
    /\ connection = NoConnection

TxNext ==
    \/ /\ tx.pc = "idle"
       /\ \E request \in TxRequests, aborted \in BOOLEAN :
              helper_prepareCalled(request, aborted)
    \/ /\ tx.pc = "idle"
       /\ \E request \in TxRequests, aborted \in BOOLEAN :
              helper_prepareAndSend(request, aborted)
    \/ /\ tx.pc = "idle"
       /\ \E config \in TunerConfigs, transaction \in TunerMessages :
              prepareTransactionCalled(config, transaction)
    \/ abort
    \/ \E ok \in BOOLEAN : prepareLifetimeSettled(ok)
    \/ \E ok \in BOOLEAN : estimateLifetimeSettled(ok)
    \/ \E ok \in BOOLEAN, unitsConsumed \in UnitsConsumed :
          simulateTransactionSettled(ok, unitsConsumed)
    \/ \E ok \in BOOLEAN : tunerLifetimeSettled(ok)
    \/ \E ok \in BOOLEAN : helper_signAndSendSettled(ok)
    \/ \E ok \in BOOLEAN : helper_signSettled(ok)
    \/ \E ok \in BOOLEAN : helper_sendTransactionSettled(ok)

TxSpec == TxInit /\ [][TxNext]_vars

\* ------------------------------------------------------------------------
\* The helper's prepare driven with every kind of authority, fee payer, version,
\* lookup shape and compute budget request
\* ------------------------------------------------------------------------
PrepareInstructionLists ==
    {<<>>,
     <<AppInstruction>>,
     <<LookupInstruction>>,
     <<AppInstruction, [AppInstruction EXCEPT !.lookup = "emptyList"]>>,
     <<getSetComputeUnitLimitInstruction(1000),
       [AppInstruction EXCEPT !.lookup = "addressTableLookups"]>>,
     <<getSetComputeUnitPriceInstruction(3), [AppInstruction EXCEPT !.lookup = "null"]>>,
     <<getSetComputeUnitLimitInstruction(1000), getSetComputeUnitPriceInstruction(3),
       AppInstruction>>}

PrepareRequests ==
    [instructions : PrepareInstructionLists,
     authority : {"none", "partialSigner", "sendingSigner"} \cup WalletSessions,
     feePayer : {"none", "otherAddress", "authorityAddress"} \cup FeePayerSigners,
     lifetime : {NoBlockhash, RequestBlockhash},
     version : {"undefined", "auto", "legacy", "0"},
     computeUnitLimit : {-1, 5000},
     computeUnitPrice : {-1, 7},
     abortSignal : BOOLEAN,
     commitment : {"undefined"},
     prepareTransaction : {[given |-> "undefined", blockhashReset |-> "absent",
                            computeUnitLimitReset |-> FALSE, logRequest |-> FALSE]}]

PrepareNext ==
    \/ /\ tx.pc = "idle"
       /\ \E request \in PrepareRequests, aborted \in BOOLEAN :
              helper_prepareCalled(request, aborted)
    \/ helper_prepareAgain
    \/ /\ tx.pc = "idle"
       /\ \E request \in PrepareRequests, aborted, resetUnits \in BOOLEAN :
              helper_prepareAndSend(
                  [request EXCEPT !.prepareTransaction =
                      IF resetUnits
                      THEN [@ EXCEPT !.given = "options", !.computeUnitLimitReset = TRUE]
                      ELSE @],
                  aborted)
    \/ abort
    \/ \E ok \in BOOLEAN : prepareLifetimeSettled(ok)
    \/ \E ok \in BOOLEAN, unitsConsumed \in UnitsConsumed :
          simulateTransactionSettled(ok, unitsConsumed)
    \/ \E ok \in BOOLEAN : helper_signAndSendSettled(ok)
    \/ \E ok \in BOOLEAN : helper_signSettled(ok)
    \/ \E ok \in BOOLEAN : helper_sendTransactionSettled(ok)

PrepareSpec == TxInit /\ [][PrepareNext]_vars

\* ------------------------------------------------------------------------
\* The cluster configuration of the client store, which the helper's fallback getter reads

Commitments == {"processed", "confirmed", "finalized"}

\* setCluster(endpoint, config) up to the await of warmupCluster; commitment is
\* config?.commitment, "undefined" when it is not given
setCluster(commitment) ==
    /\ Len(cluster.warming) < MaxWarming
    /\ LET nextCommitment ==
               IF commitment # "undefined" THEN commitment ELSE cluster.commitment
       IN  cluster' = [commitment |-> nextCommitment, status |-> "connecting",
                       warming |-> Append(cluster.warming, nextCommitment)]
    /\ ClusterFrame

\* warmupCluster of the i-th pending setCluster call settles; the call writes its own
\* nextCommitment again
setClusterSettled(i, ok) ==
    /\ i \in 1..Len(cluster.warming)
    /\ cluster' = [commitment |-> cluster.warming[i],
                   status |-> IF ok THEN "ready" ELSE "error",
                   warming |-> [j \in 1..(Len(cluster.warming) - 1) |->
                                   IF j < i THEN cluster.warming[j]
                                   ELSE cluster.warming[j + 1]]]
    /\ ClusterFrame

CommitmentRequests ==
    [instructions : {<<AppInstruction>>},
     authority : {"partialSigner"},
     feePayer : {"none"},
     lifetime : {NoBlockhash, RequestBlockhash},
     version : {"undefined"},
     computeUnitLimit : {-1},
     computeUnitPrice : {-1},
     abortSignal : {FALSE},
     commitment : Commitments \cup {"undefined"},
     prepareTransaction : {[given |-> "undefined", blockhashReset |-> "absent",
                            computeUnitLimitReset |-> FALSE, logRequest |-> FALSE]}]

CommitmentNext ==
    \/ \E request \in CommitmentRequests : helper_prepareCalled(request, FALSE)
    \/ helper_prepareAgain
    \/ \E commitment \in Commitments \cup {"undefined"} : setCluster(commitment)
    \/ \E i \in 1..MaxWarming, ok \in BOOLEAN : setClusterSettled(i, ok)
    \/ \E ok \in BOOLEAN : prepareLifetimeSettled(ok)

CommitmentSpec == TxInit /\ [][CommitmentNext]_vars

\* ------------------------------------------------------------------------
\* Token amount math: numeric/math.ts, numeric/rational.ts, numeric/amounts.ts.
\* A string is the sequence of its characters.

DigitChars == <<"0", "1", "2", "3", "4", "5", "6", "7", "8", "9">>

isDigit(c) == \E n \in 1..10 : DigitChars[n] = c

DigitValue(c) == (CHOOSE n \in 1..10 : DigitChars[n] = c) - 1

\* BigInt(digits) of a string of decimal digits
RECURSIVE BigInt(_)
BigInt(digits) ==
    IF Len(digits) = 0
    THEN 0
    ELSE 10 * BigInt(SubSeq(digits, 1, Len(digits) - 1)) + DigitValue(digits[Len(digits)])

\* n.toString() of a non-negative bigint
RECURSIVE toString(_)
toString(n) ==
    IF n < 10 THEN <<DigitChars[n + 1]>> ELSE Append(toString(n \div 10), DigitChars[(n % 10) + 1])

\* value.replace(/_/g, '')
RECURSIVE removeUnderscores(_)
removeUnderscores(str) ==
    IF Len(str) = 0
    THEN <<>>
    ELSE IF Head(str) = "_"
         THEN removeUnderscores(Tail(str))
         ELSE <<Head(str)>> \o removeUnderscores(Tail(str))

\* str.trim()
RECURSIVE trim(_)
trim(str) ==
    IF Len(str) = 0
    THEN <<>>
    ELSE IF Head(str) = " "
         THEN trim(Tail(str))
         ELSE IF str[Len(str)] = " "
              THEN trim(SubSeq(str, 1, Len(str) - 1))
              ELSE str

\* the index of the first '.' of str, 0 when there is none
indexOfDot(str) ==
    IF \E i \in 1..Len(str) : str[i] = "."
    THEN CHOOSE i \in 1..Len(str) : str[i] = "." /\ \A j \in 1..(i - 1) : str[j] # "."
    ELSE 0

\* DECIMAL_PATTERN.test(str), the pattern being /^\d+(?:\.\d+)?$/
matchesDecimalPattern(str) ==
    LET dot == indexOfDot(str)
    IN  /\ Len(str) > 0
        /\ \A i \in 1..Len(str) : isDigit(str[i]) \/ i = dot
        /\ dot # 1
        /\ dot # Len(str)

\* only the first digit is looked at
hasNonZeroDigit_FirstDigitOnly(digits) ==
    Len(digits) > 0 /\ isDigit(digits[1]) /\ digits[1] # "0"

\* /[1-9]/.test(digits)
hasNonZeroDigit(digits) == \E i \in 1..Len(digits) : isDigit(digits[i]) /\ digits[i] # "0"

\* digits.padEnd(length, '0')
RECURSIVE padEnd(_, _)
padEnd(digits, length) ==
    IF Len(digits) >= length THEN digits ELSE padEnd(Append(digits, "0"), length)

\* the digits are left as they are
padStart_NoPadding(digits, length) == digits

\* digits.padStart(length, '0')
RECURSIVE padStart(_, _)
padStart(digits, length) ==
    IF Len(digits) >= length THEN digits ELSE padStart(<<"0">> \o digits, length)

\* fraction.replace(/0+$/, '')
RECURSIVE trimTrailingZeros(_)
trimTrailingZeros(digits) ==
    IF Len(digits) > 0 /\ digits[Len(digits)] = "0"
    THEN trimTrailingZeros(SubSeq(digits, 1, Len(digits) - 1))
    ELSE digits

\* pow10(exponent)
RECURSIVE pow10(_)
pow10(exponent) == IF exponent = 0 THEN 1 ELSE 10 * pow10(exponent - 1)

\* what a call of the helper came to: a value returned or an error thrown
NumericReturned(value) == [status |-> "returned", value |-> value, error |-> "none"]

NumericThrown(error) == [status |-> "thrown", value |-> 0, error |-> error]

\* assertNonNegative(value) followed by returning then
assertNonNegative(value, then) ==
    IF value < 0 THEN NumericThrown("RangeError") ELSE then

\* toBigint(value, label)
toBigint(value) ==
    IF value.type = "bigint"
    THEN NumericReturned(value.int)
    ELSE IF value.type = "number"
    THEN IF ~value.finite \/ ~value.integer
         THEN NumericThrown("RangeError")
         ELSE IF ~value.safe
              THEN NumericThrown("RangeError")
              ELSE NumericReturned(value.int)
    ELSE LET trimmed == trim(value.str)
             signed == Len(trimmed) > 0 /\ Head(trimmed) \in {"-", "+"}
             digits == IF signed THEN Tail(trimmed) ELSE trimmed
         IN  IF Len(digits) = 0 \/ \E i \in 1..Len(digits) : ~isDigit(digits[i])
             THEN NumericThrown("SyntaxError")
             ELSE NumericReturned(IF signed /\ Head(trimmed) = "-"
                                  THEN 0 - BigInt(digits)
                                  ELSE BigInt(digits))

\* fromBaseUnits(value, label)
fromBaseUnits(value) ==
    LET amount == toBigint(value)
    IN  IF amount.status = "thrown" THEN amount ELSE assertNonNegative(amount.value, amount)

\* a bigint argument
bigint(n) ==
    [type |-> "bigint", finite |-> TRUE, integer |-> TRUE, safe |-> TRUE, int |-> n,
     str |-> <<>>]

\* decimalToBaseUnits(value, decimals, scale, options) with rounding = options.rounding
decimalToBaseUnits(value, decimals, scale, rounding) ==
    LET mode == IF rounding = "undefined" THEN "floor" ELSE rounding
        sanitized == trim(removeUnderscores(value))
        dot == indexOfDot(sanitized)
        integerPart == IF dot = 0 THEN sanitized ELSE SubSeq(sanitized, 1, dot - 1)
        fractionalDigits ==
            IF dot = 0 THEN <<>> ELSE SubSeq(sanitized, dot + 1, Len(sanitized))
        whole == BigInt(integerPart) * scale
        truncatedFractional ==
            padEnd(SubSeq(fractionalDigits, 1, IF Len(fractionalDigits) < decimals
                                               THEN Len(fractionalDigits)
                                               ELSE decimals),
                   decimals)
        remainderDigits == SubSeq(fractionalDigits, decimals + 1, Len(fractionalDigits))
        truncated == whole + BigInt(truncatedFractional)
    IN  IF Len(sanitized) = 0
        THEN NumericThrown("SyntaxError")
        ELSE IF ~matchesDecimalPattern(sanitized)
        THEN NumericThrown("SyntaxError")
        ELSE IF decimals = 0
        THEN IF Len(fractionalDigits) = 0
             THEN NumericReturned(whole)
             ELSE IF mode = "ceil" /\ hasNonZeroDigit(fractionalDigits)
             THEN NumericReturned(whole + 1)
             ELSE IF mode = "round" /\ DigitValue(fractionalDigits[1]) >= 5
             THEN NumericReturned(whole + 1)
             ELSE NumericReturned(whole)
        ELSE IF Len(fractionalDigits) > decimals
        THEN IF mode = "ceil" /\ hasNonZeroDigit(remainderDigits)
             THEN NumericReturned(truncated + 1)
             ELSE IF mode = "round" /\ DigitValue(remainderDigits[1]) >= 5
             THEN NumericReturned(truncated + 1)
             ELSE NumericReturned(truncated)
        ELSE NumericReturned(truncated)

\* normalizeNumberInput(value, decimals, label) for a finite number that is no integer:
\* the string it returns, or the error it throws
normalizeNumberInput(value, decimals) ==
    LET stringValue == value.str
        dot == indexOfDot(stringValue)
    IN  IF ~value.finite
        THEN NumericThrown("RangeError")
        ELSE IF \E i \in 1..Len(stringValue) : stringValue[i] \in {"e", "E"}
        THEN NumericThrown("RangeError")
        ELSE IF dot # 0 /\ Len(stringValue) - dot > decimals + 6
        THEN NumericThrown("RangeError")
        ELSE NumericReturned(0)

\* fromDecimal(value, options) of createTokenAmount(decimals)
fromDecimal(decimals, value, rounding) ==
    LET scale == pow10(decimals)
    IN  IF value.type = "number"
        THEN IF value.integer
             THEN IF ~value.safe
                  THEN NumericThrown("RangeError")
                  ELSE fromBaseUnits(bigint(value.int * scale))
             ELSE IF decimals = 0
             THEN NumericThrown("RangeError")
             ELSE IF normalizeNumberInput(value, decimals).status = "thrown"
             THEN normalizeNumberInput(value, decimals)
             ELSE decimalToBaseUnits(value.str, decimals, scale, rounding)
        ELSE decimalToBaseUnits(value.str, decimals, scale, rounding)

\* formatBaseUnits(amount, decimals, scale, options): the string in text
formatBaseUnits(amount, decimals, scale, options) ==
    LET minimumFractionDigits ==
            IF options.minimumFractionDigits = -2 THEN 0 ELSE options.minimumFractionDigits
        trimZeros ==
            IF options.trimTrailingZeros = "undefined"
            THEN TRUE
            ELSE options.trimTrailingZeros = "true"
        whole == amount \div scale
        padded == padStart(toString(amount % scale), decimals)
        trimmed == IF trimZeros THEN trimTrailingZeros(padded) ELSE padded
        fraction == IF Len(trimmed) < minimumFractionDigits
                    THEN padEnd(trimmed, minimumFractionDigits)
                    ELSE trimmed
    IN  IF amount < 0
        THEN [NumericThrown("RangeError") EXCEPT !.value = <<>>]
        ELSE IF minimumFractionDigits < 0 \/ minimumFractionDigits > decimals
        THEN [NumericThrown("RangeError") EXCEPT !.value = <<>>]
        ELSE IF decimals = 0
        THEN NumericReturned(toString(amount))
        ELSE IF Len(fraction) = 0
        THEN NumericReturned(toString(whole))
        ELSE NumericReturned(toString(whole) \o <<".">> \o fraction)

\* toDecimalString(amount, options) of createTokenAmount(decimals)
toDecimalString(decimals, amount, options) ==
    LET checked == fromBaseUnits(bigint(amount))
    IN  IF checked.status = "thrown"
        THEN [checked EXCEPT !.value = <<>>]
        ELSE formatBaseUnits(checked.value, decimals, pow10(decimals), options)

\* checkedAdd(lhs, rhs)
checkedAdd(lhs, rhs) == assertNonNegative(lhs + rhs, NumericReturned(lhs + rhs))

\* the difference is returned unchecked
checkedSubtract_Unchecked(lhs, rhs) == NumericReturned(lhs - rhs)

\* checkedSubtract(lhs, rhs)
checkedSubtract(lhs, rhs) == assertNonNegative(lhs - rhs, NumericReturned(lhs - rhs))

\* add(lhs, rhs) of createTokenAmount(decimals); the arguments are evaluated left to right
add(lhs, rhs) ==
    IF fromBaseUnits(bigint(lhs)).status = "thrown"
    THEN fromBaseUnits(bigint(lhs))
    ELSE IF fromBaseUnits(bigint(rhs)).status = "thrown"
    THEN fromBaseUnits(bigint(rhs))
    ELSE checkedAdd(lhs, rhs)

\* subtract(lhs, rhs) of createTokenAmount(decimals)
subtract(lhs, rhs) ==
    IF fromBaseUnits(bigint(lhs)).status = "thrown"
    THEN fromBaseUnits(bigint(lhs))
    ELSE IF fromBaseUnits(bigint(rhs)).status = "thrown"
    THEN fromBaseUnits(bigint(rhs))
    ELSE checkedSubtract(lhs, rhs)

\* the bigint operators / and %, which truncate towards zero
bigintDiv(a, b) ==
    IF (a >= 0) = (b >= 0)
    THEN (IF a >= 0 THEN a ELSE 0 - a) \div (IF b >= 0 THEN b ELSE 0 - b)
    ELSE 0 - ((IF a >= 0 THEN a ELSE 0 - a) \div (IF b >= 0 THEN b ELSE 0 - b))

bigintRem(a, b) == a - b * bigintDiv(a, b)

\* 'round' rounds up only above the half
divideWithRounding_HalfDown(dividend, divisor, rounding) ==
    LET base == bigintDiv(dividend, divisor)
        remainder == bigintRem(dividend, divisor)
    IN  IF divisor <= 0
        THEN NumericThrown("RangeError")
        ELSE IF remainder = 0
        THEN NumericReturned(base)
        ELSE IF rounding = "ceil"
        THEN NumericReturned(base + 1)
        ELSE IF rounding = "round"
        THEN NumericReturned(IF remainder * 2 > divisor THEN base + 1 ELSE base)
        ELSE NumericReturned(base)

\* divideWithRounding(dividend, divisor, rounding)
divideWithRounding(dividend, divisor, rounding) ==
    LET base == bigintDiv(dividend, divisor)
        remainder == bigintRem(dividend, divisor)
    IN  IF divisor <= 0
        THEN NumericThrown("RangeError")
        ELSE IF remainder = 0
        THEN NumericReturned(base)
        ELSE IF rounding = "ceil"
        THEN NumericReturned(base + 1)
        ELSE IF rounding = "round"
        THEN NumericReturned(IF remainder * 2 >= divisor THEN base + 1 ELSE base)
        ELSE NumericReturned(base)

\* createRatio(numeratorInput, denominatorInput) for bigint inputs
createRatio(numeratorInput, denominatorInput) ==
    IF denominatorInput <= 0
    THEN [NumericThrown("RangeError") EXCEPT !.value = NoRatio]
    ELSE IF numeratorInput < 0
    THEN [NumericThrown("RangeError") EXCEPT !.value = NoRatio]
    ELSE NumericReturned([numerator |-> numeratorInput, denominator |-> denominatorInput])

\* applyRatio(amount, ratio, options) with rounding = options.rounding
applyRatio(amount, ratio, rounding) ==
    assertNonNegative(amount,
        divideWithRounding(amount * ratio.numerator, ratio.denominator,
                           IF rounding = "undefined" THEN "floor" ELSE rounding))

\* multiplyByRatio(amount, ratio, options) of createTokenAmount(decimals)
multiplyByRatio(amount, ratio, rounding) ==
    IF fromBaseUnits(bigint(amount)).status = "thrown"
    THEN fromBaseUnits(bigint(amount))
    ELSE applyRatio(amount, ratio, rounding)

\* ---- one helper, its calls ----

\* the call returns or throws
NumericSettled(s, op, outcome) ==
    [s EXCEPT !.pc = outcome.status, !.last = op, !.error = outcome.error,
              !.result = IF outcome.status = "returned" THEN outcome.value ELSE @]

\* math.fromBaseUnits(value)
fromBaseUnitsCalled ==
    /\ numeric.pc = "input"
    /\ numeric.op = "fromBaseUnits"
    /\ numeric' = NumericSettled(numeric, "fromBaseUnits", fromBaseUnits(numeric.value))
    /\ NumericFrame

\* math.fromDecimal(value, { rounding })
fromDecimalCalled ==
    /\ numeric.pc = "input"
    /\ numeric.op = "fromDecimal"
    /\ numeric' = NumericSettled(numeric, "fromDecimal",
                                 fromDecimal(numeric.decimals, numeric.value, numeric.rounding))
    /\ NumericFrame

\* math.toDecimalString(amount, options), the amount being an argument of its own or
\* what fromDecimal has just returned
toDecimalStringCalled ==
    /\ \/ numeric.pc = "input" /\ numeric.op = "toDecimalString"
       \/ numeric.pc = "returned" /\ numeric.last = "fromDecimal"
    /\ LET amount == IF numeric.pc = "input" THEN numeric.lhs ELSE numeric.result
           outcome == toDecimalString(numeric.decimals, amount, numeric.options)
       IN  numeric' = [numeric EXCEPT !.pc = outcome.status, !.last = "toDecimalString",
                                      !.error = outcome.error, !.text = outcome.value]
    /\ NumericFrame

\* math.add(lhs, rhs)
addCalled ==
    /\ numeric.pc = "input"
    /\ numeric.op = "add"
    /\ numeric' = NumericSettled(numeric, "add", add(numeric.lhs, numeric.rhs))
    /\ NumericFrame

\* math.subtract(lhs, rhs)
subtractCalled ==
    /\ numeric.pc = "input"
    /\ numeric.op = "subtract"
    /\ numeric' = NumericSettled(numeric, "subtract", subtract(numeric.lhs, numeric.rhs))
    /\ NumericFrame

\* createRatio(numeratorInput, denominatorInput)
createRatioCalled ==
    /\ numeric.pc = "input"
    /\ numeric.op = "multiplyByRatio"
    /\ LET outcome == createRatio(numeric.numeratorInput, numeric.denominatorInput)
       IN  numeric' = [numeric EXCEPT !.pc = IF outcome.status = "returned"
                                             THEN "ratio"
                                             ELSE "thrown",
                                      !.last = "createRatio", !.error = outcome.error,
                                      !.ratio = outcome.value]
    /\ NumericFrame

\* math.multiplyByRatio(amount, ratio, { rounding }) with the ratio createRatio returned
multiplyByRatioCalled ==
    /\ numeric.pc = "ratio"
    /\ numeric' = NumericSettled(numeric, "multiplyByRatio",
                                 multiplyByRatio(numeric.lhs, numeric.ratio, numeric.rounding))
    /\ NumericFrame

\* ---- bounded inputs ----

DecimalAlphabet == {"0", "4", "5", ".", "_", "-", " "}

RECURSIVE StringsUpTo(_, _)
StringsUpTo(alphabet, n) ==
    IF n = 0
    THEN {<<>>}
    ELSE LET shorter == StringsUpTo(alphabet, n - 1)
         IN  shorter \cup {Append(str, c) : str \in shorter, c \in alphabet}

string(str) ==
    [type |-> "string", finite |-> FALSE, integer |-> FALSE, safe |-> FALSE, int |-> 0,
     str |-> str]

\* an integer number; one outside the safe range has no int
integerNumber(n, safe) ==
    [type |-> "number", finite |-> TRUE, integer |-> TRUE, safe |-> safe,
     int |-> IF safe THEN n ELSE 0, str |-> <<>>]

\* a number that is no integer, with its toString(10)
otherNumber(finite, str) ==
    [type |-> "number", finite |-> finite, integer |-> FALSE, safe |-> FALSE, int |-> 0,
     str |-> str]

Numbers ==
    {integerNumber(n, TRUE) : n \in -2..3}
    \cup {integerNumber(0, FALSE)}
    \cup {otherNumber(FALSE, <<"N", "a", "N">>),
          otherNumber(TRUE, <<"1", ".", "5">>),
          otherNumber(TRUE, <<"-", "1", ".", "5">>),
          otherNumber(TRUE, <<"0", ".", "0", "4", "5">>),
          otherNumber(TRUE, <<"0", ".", "1", "2", "3", "4", "5", "6", "7", "8">>),
          otherNumber(TRUE, <<"1", "e", "-", "7">>)}

DecimalValues == {string(str) : str \in StringsUpTo(DecimalAlphabet, MaxLen)} \cup Numbers

BaseUnitValues ==
    {bigint(n) : n \in -2..3}
    \cup Numbers
    \cup {string(str) : str \in StringsUpTo({"1", "-", "+", " ", "."}, 3)}

RoundingModes == {"undefined", "floor", "ceil", "round"}

Amounts == -2..MaxAmount

\* the helper is created and the arguments of one call are chosen
NumericInit ==
    /\ createTransactionPoolController
    /\ spl = SplIdle
    /\ tx = TxIdle
    /\ wallet = NoWalletSigner
    /\ stores = NoStores
    /\ solTransfer = NoSolTransfer
    /\ watch = NoWatch
    /\ connection = NoConnection
    /\ cluster = createClusterState
    /\ \/ \E decimals \in 0..MaxDecimals, value \in DecimalValues, rounding \in RoundingModes :
              numeric = [NoNumeric EXCEPT !.pc = "input", !.op = "fromDecimal",
                                          !.decimals = decimals, !.value = value,
                                          !.rounding = rounding]
       \/ \E value \in BaseUnitValues :
              numeric = [NoNumeric EXCEPT !.pc = "input", !.op = "fromBaseUnits",
                                          !.value = value]
       \/ \E decimals \in 0..MaxDecimals, amount \in {-1, 0, 5, 10, 120, 1005, 1230},
             digits \in -2..(MaxDecimals + 1), trimZeros \in {"undefined", "true", "false"} :
              numeric = [NoNumeric EXCEPT !.pc = "input", !.op = "toDecimalString",
                                          !.decimals = decimals, !.lhs = amount,
                                          !.options = [minimumFractionDigits |-> digits,
                                                       trimTrailingZeros |-> trimZeros]]
       \/ \E op \in {"add", "subtract"}, lhs \in Amounts, rhs \in Amounts :
              numeric = [NoNumeric EXCEPT !.pc = "input", !.op = op, !.lhs = lhs, !.rhs = rhs]
       \/ \E amount \in Amounts, numerator \in -1..MaxAmount, denominator \in -1..MaxAmount,
             rounding \in RoundingModes :
              numeric = [NoNumeric EXCEPT !.pc = "input", !.op = "multiplyByRatio",
                                          !.lhs = amount, !.numeratorInput = numerator,
                                          !.denominatorInput = denominator,
                                          !.rounding = rounding]

NumericNext ==
    \/ fromBaseUnitsCalled
    \/ fromDecimalCalled
    \/ toDecimalStringCalled
    \/ addCalled
    \/ subtractCalled
    \/ createRatioCalled
    \/ multiplyByRatioCalled

NumericSpec == NumericInit /\ [][NumericNext]_vars

\* ------------------------------------------------------------------------
\* Instruction Pool Controller with a listener: every setSnapshot of a store calls the
\* listeners of that store before it returns, so an operation of the controller is the
\* sequence of its store writes with the listener's calls in between. The listener may
\* call controller.send() the first time it is invoked.

StoreInstructionLists == {<<>>, <<"ixA">>, <<"ixB">>}

NoStorePrepared == [instructions |-> <<>>, set |-> FALSE]

\* createTransactionPoolController(config) with no initialInstructions, no listener yet;
\*   listener: the store the listener is subscribed to; armed: it will call send();
\*   during: the controller function running; seen: what the stores held at each call of
\*   the listener during the last operation; sending: the helper.send calls awaited;
\*   rejected: a send() of the last operation found nothing prepared
createStores ==
    [pc |-> "ready", instructions |-> <<>>, prepared |-> NoStorePrepared,
     prepareState |-> "idle", sendState |-> "idle",
     listener |-> "none", armed |-> FALSE, during |-> "none", seen |-> <<>>,
     preparing |-> <<>>, sending |-> <<>>, rejected |-> FALSE]

\* the listener is called: it reads the four snapshots
listenerSeen(s) ==
    [s EXCEPT !.seen = Append(@, [during |-> s.during, instructions |-> s.instructions,
                                   prepared |-> s.prepared, prepareState |-> s.prepareState,
                                   sendState |-> s.sendState])]

\* variant: the listeners are not called by setSnapshot
store_setSnapshot_Silent(s, store, next) ==
    IF store = "instructions" THEN [s EXCEPT !.instructions = next]
    ELSE IF store = "prepared" THEN [s EXCEPT !.prepared = next]
    ELSE IF store = "prepareState" THEN [s EXCEPT !.prepareState = next]
    ELSE [s EXCEPT !.sendState = next]

\* store.setSnapshot(next): snapshot = next; for (const listener of listeners) listener();
\* a listener that is armed calls controller.send(): resolvePrepared(), then
\* sendStateStore.setSnapshot('loading'), then helper.send(target), which is awaited
RECURSIVE store_setSnapshot(_, _, _)
store_setSnapshot(s, store, next) ==
    LET written == store_setSnapshot_Silent(s, store, next)
        called == listenerSeen(written)
        disarmed == [called EXCEPT !.armed = FALSE]
        loading == store_setSnapshot(disarmed, "sendState", "loading")
    IN  IF s.listener # store
        THEN written
        ELSE IF ~called.armed
        THEN called
        ELSE IF ~disarmed.prepared.set
        THEN [disarmed EXCEPT !.rejected = TRUE]
        ELSE [loading EXCEPT !.sending = Append(@, [target |-> disarmed.prepared,
                                                     from |-> "listener",
                                                     pool |-> disarmed.instructions,
                                                     during |-> disarmed.during])]

\* an operation of the controller starts
storesEntered(op) == [stores EXCEPT !.during = op, !.seen = <<>>, !.rejected = FALSE]

StoresFrame == UNCHANGED <<OtherVars, solTransfer, watch, connection>>

\* controller.subscribeInstructions / subscribePrepared / subscribePrepareState /
\* subscribeSendState(listener)
store_subscribe(store, sends) ==
    /\ stores.pc = "ready"
    /\ stores.listener = "none"
    /\ stores' = [stores EXCEPT !.listener = store, !.armed = sends]
    /\ StoresFrame

\* the listener decides to call controller.send() the next time it is invoked
listenerArmed ==
    /\ stores.pc = "ready"
    /\ stores.listener # "none"
    /\ ~stores.armed
    /\ stores' = [stores EXCEPT !.armed = TRUE]
    /\ StoresFrame

\* commitInstructions(next), reached by every instruction mutation:
\* instructionsStore.setSnapshot(next), then resetDerivedState() store by store
store_commitInstructions(next) ==
    /\ stores.pc = "ready"
    /\ LET s1 == store_setSnapshot(storesEntered("commitInstructions"), "instructions", next)
           s2 == store_setSnapshot(s1, "prepared", NoStorePrepared)
           s3 == store_setSnapshot(s2, "prepareState", "idle")
           s4 == store_setSnapshot(s3, "sendState", "idle")
       IN  /\ Len(s4.sending) <= MaxStoreCalls
           /\ stores' = [s4 EXCEPT !.during = "none"]
    /\ StoresFrame

\* controller.prepare() up to the await of helper.prepare
store_prepare ==
    /\ stores.pc = "ready"
    /\ Len(stores.preparing) < MaxStoreCalls
    /\ Len(stores.instructions) > 0
    /\ LET s1 == store_setSnapshot(storesEntered("prepare"), "prepareState", "loading")
       IN  /\ Len(s1.sending) <= MaxStoreCalls
           /\ stores' = [s1 EXCEPT !.during = "none",
                                   !.preparing = Append(@, stores.instructions)]
    /\ StoresFrame

\* the first element of a sequence is taken away
store_rest(seq) == SubSeq(seq, 2, Len(seq))

\* controller.prepare() from the settlement of the oldest helper.prepare on
store_prepareSettled(ok) ==
    /\ stores.pc = "ready"
    /\ Len(stores.preparing) > 0
    /\ LET entered == [storesEntered("prepare") EXCEPT !.preparing = store_rest(@)]
           value == [instructions |-> Head(stores.preparing), set |-> TRUE]
           s1 == store_setSnapshot(entered, "prepared", value)
           s2 == store_setSnapshot(s1, "prepareState", "success")
           e1 == store_setSnapshot(entered, "prepareState", "error")
           s == IF ok THEN s2 ELSE e1
       IN  /\ Len(s.sending) <= MaxStoreCalls
           /\ stores' = [s EXCEPT !.during = "none"]
    /\ StoresFrame

\* controller.send() called by the application, up to the await of helper.send
store_send ==
    /\ stores.pc = "ready"
    /\ Len(stores.sending) < MaxStoreCalls
    /\ LET entered == storesEntered("send")
           s1 == store_setSnapshot(entered, "sendState", "loading")
       IN  IF ~stores.prepared.set
           THEN stores' = [entered EXCEPT !.during = "none", !.rejected = TRUE]
           ELSE /\ Len(s1.sending) < MaxStoreCalls
                /\ stores' = [s1 EXCEPT !.during = "none",
                                        !.sending = Append(@, [target |-> stores.prepared,
                                                                from |-> "caller",
                                                                pool |-> stores.instructions,
                                                                during |-> "send"])]
    /\ StoresFrame

\* controller.send() from the settlement of the oldest helper.send on
store_sendSettled(ok) ==
    /\ stores.pc = "ready"
    /\ Len(stores.sending) > 0
    /\ LET entered == [storesEntered("send") EXCEPT !.sending = store_rest(@)]
           s == store_setSnapshot(entered, "sendState", IF ok THEN "success" ELSE "error")
       IN  /\ Len(s.sending) <= MaxStoreCalls
           /\ stores' = [s EXCEPT !.during = "none"]
    /\ StoresFrame

ListenerInit ==
    /\ createTransactionPoolController
    /\ spl = SplIdle
    /\ tx = TxIdle
    /\ wallet = NoWalletSigner
    /\ cluster = createClusterState
    /\ numeric = NoNumeric
    /\ stores = createStores
    /\ solTransfer = NoSolTransfer
    /\ watch = NoWatch
    /\ connection = NoConnection

ListenerNext ==
    \/ \E store \in {"instructions", "prepared", "prepareState", "sendState"},
          sends \in BOOLEAN : store_subscribe(store, sends)
    \/ listenerArmed
    \/ \E next \in StoreInstructionLists : store_commitInstructions(next)
    \/ store_prepare
    \/ \E ok \in BOOLEAN : store_prepareSettled(ok)
    \/ store_send
    \/ \E ok \in BOOLEAN : store_sendSettled(ok)

ListenerSpec == ListenerInit /\ [][ListenerNext]_vars

\* ------------------------------------------------------------------------
\* The tuner driven directly: every blockhashReset, multipliers 1, 1.1 (also as the
\* default), 1.5 and 0, and simulations reporting no units, 0, or units whose product
\* with 1.1 is and is not a double
\* ------------------------------------------------------------------------
TunerNext ==
    \/ /\ tx.pc = "idle"
       /\ \E config \in [blockhashReset : {"absent", "undefined", "true", "false"},
                          computeUnitLimitReset : BOOLEAN, logRequest : BOOLEAN,
                          computeUnitLimitMultiplier : {-1, 0, 10, 11, 15}],
             transaction \in TunerMessages :
              prepareTransactionCalled(config, transaction)
    \/ \E ok \in BOOLEAN : estimateLifetimeSettled(ok)
    \/ \E ok \in BOOLEAN, unitsConsumed \in {-1, 0, 1, 7, 50, 500000, 700000} :
          simulateTransactionSettled(ok, unitsConsumed)
    \/ \E ok \in BOOLEAN : tunerLifetimeSettled(ok)

TunerSpec == TxInit /\ [][TunerNext]_vars

\* ------------------------------------------------------------------------
\* The helper's send driven directly with prepared transactions of the caller
\* ------------------------------------------------------------------------
SendNext ==
    \/ /\ tx.pc = "idle"
       /\ \E mode \in {"send", "partial"}, signer \in {"sendingSigner", "partialSigner", "none"},
             commitment \in {"processed", "confirmed"},
             options \in [commitment : {"undefined", "processed", "finalized"}] :
              helper_sendCalled(
                  [NoTxPrepared EXCEPT
                      !.mode = mode, !.commitment = commitment,
                      !.feePayer = "feePayerAddress", !.version = "legacy",
                      !.instructions = <<AppInstruction>>, !.lifetime = RequestBlockhash,
                      !.message = [version |-> "legacy", feePayer |-> "feePayerAddress",
                                   feePayerSigner |-> signer,
                                   instructions |-> <<AppInstruction>>,
                                   lifetime |-> RequestBlockhash]],
                  options)
    \/ \E ok \in BOOLEAN : helper_signAndSendSettled(ok)
    \/ \E ok \in BOOLEAN : helper_signSettled(ok)
    \/ \E ok \in BOOLEAN : helper_sendTransactionSettled(ok)

SendSpec == TxInit /\ [][SendNext]_vars

\* ------------------------------------------------------------------------
\* Properties of the Instruction Pool Controller
\* ------------------------------------------------------------------------
MutationOps == {"addInstruction", "addInstructions", "removeInstruction",
                "replaceInstructions", "clearInstructions", "reset"}

DerivedStateIsReset ==
    /\ prepared = NoPrepared
    /\ prepareState.status = "idle"
    /\ sendState.status = "idle"

\* the mutation just made was one that commits a list: addInstructions got a
\* non-empty list, removeInstruction an index inside the list
Committing ==
    /\ ret.op \in MutationOps
    /\ ret.op = "addInstructions" => ret.arg > 0
    /\ ret.op = "removeInstruction" => (0 <= ret.arg /\ ret.arg < ret.size)

\* C1 as stated: right after any call of a mutation method, whatever its argument,
\* that followed a successful prepare, getPrepared() is null and prepareState and
\* sendState are idle.
C1_ResetAfterAnyMutation ==
    (ret.op \in MutationOps /\ ret.hadPrepared) => DerivedStateIsReset

\* C1 amended: right after addInstruction, replaceInstructions, clearInstructions,
\* reset, addInstructions with a non-empty list or removeInstruction with an index
\* inside the list, that followed a successful prepare, getPrepared() is null and
\* prepareState and sendState are idle.
C1_ResetAfterCommittingMutation ==
    (Committing /\ ret.hadPrepared) => DerivedStateIsReset

C1_Witness ==
    /\ ret.op = "removeInstruction" /\ Committing /\ ret.hadPrepared
    /\ DerivedStateIsReset

\* C2: with no override given, the prepared transaction that send() hands to
\* helper.send was prepared from the instruction list current at the send() call.
C2_SendsWhatThePoolHolds ==
    (ret.op = "send" /\ ret.helper = "send") => ret.target.instructions = instructions

\* C3 as stated: a slice changes status to success or error only from loading, to
\* loading only by a prepare/send/prepareAndSend call starting, and otherwise only
\* by a reset to idle.
StartsPrepare == ret'.op = "prepare" /\ ret'.result = "pending"

StartsSend == ret'.op \in {"send", "prepareAndSend"} /\ ret'.result = "pending"

C3_StrictCycle ==
    [][/\ prepareState'.status # prepareState.status =>
            \/ prepareState'.status \in {"success", "error"} /\ prepareState.status = "loading"
            \/ prepareState'.status = "loading" /\ StartsPrepare
            \/ prepareState'.status = "idle" /\ ret'.op \in MutationOps
       /\ sendState'.status # sendState.status =>
            \/ sendState'.status \in {"success", "error"} /\ sendState.status = "loading"
            \/ sendState'.status = "loading" /\ StartsSend
            \/ sendState'.status = "idle" /\ ret'.op \in MutationOps]_vars

\* C3 amended: a slice changes status to success or error only when a call that is
\* in flight on that slice settles (whatever the status is by then), to loading only
\* by a prepare/send/prepareAndSend call starting, and otherwise only by the reset to
\* idle of an instruction mutation.
SettlesOn(fns) ==
    /\ ret'.op \in {"prepareSettled", "sendSettled", "prepareAndSendSettled"}
    /\ \E p \in BagToSet(pending) : p.fn \in fns /\ pending' = Settle(p)

C3_SettlementCycle ==
    [][/\ prepareState'.status # prepareState.status =>
            \/ prepareState'.status \in {"success", "error"} /\ SettlesOn({"prepare"})
            \/ prepareState'.status = "loading" /\ StartsPrepare
            \/ prepareState'.status = "idle" /\ ret'.op \in MutationOps
       /\ sendState'.status # sendState.status =>
            \/ sendState'.status \in {"success", "error"} /\ SettlesOn({"send", "prepareAndSend"})
            \/ sendState'.status = "loading" /\ StartsSend
            \/ sendState'.status = "idle" /\ ret'.op \in MutationOps]_vars

\* a settlement delivered to a slice that a mutation had reset to idle
C3_Witness ==
    /\ ret.op = "prepareSettled" /\ ret.result = "reject"
    /\ prepareState.status = "error"
    /\ sendState.status = "idle" /\ prepared = NoPrepared /\ pending = EmptyBag

\* C4: when calls overlap on a slice, a call starting sets the slice to loading
\* again, no call in flight is dropped, and every settlement writes its own outcome
\* to the slice, so that the slice ends with the outcome of the call settled last.
Outcome(state) ==
    IF ret.result = "resolve"
    THEN state = createAsyncState("success", ret.target, ret.value, NoError)
    ELSE state = createAsyncState("error", NoPrepared, 0, ret.err)

C4_LastSettlementWins ==
    /\ [](/\ ret.op = "prepareSettled" => Outcome(prepareState)
          /\ ret.op \in {"sendSettled", "prepareAndSendSettled"} => Outcome(sendState)
          /\ (ret.op = "prepare" /\ ret.result = "pending") => prepareState.status = "loading"
          /\ (ret.op \in {"send", "prepareAndSend"} /\ ret.result = "pending") =>
                 sendState.status = "loading")
    /\ [][/\ ret'.result = "pending" =>
                /\ pending \sqsubseteq pending'
                /\ BagCardinality(pending') = BagCardinality(pending) + 1
          /\ ret'.result \in {"resolve", "reject"} /\ ret'.op # "prepare" /\ ret'.op # "send"
               /\ ret'.op # "prepareAndSend" =>
                /\ pending' \sqsubseteq pending
                /\ BagCardinality(pending') = BagCardinality(pending) - 1]_vars

\* one of two overlapping sends has settled as an error while the other is in flight
C4_Witness ==
    /\ ret.op = "sendSettled" /\ ret.result = "reject"
    /\ sendState.status = "error" /\ sendState.error = ret.err
    /\ BagIn(Request("send", <<>>, NoLifetime), pending)

\* C5 as stated: whenever prepare rejects, prepareState is the error state holding
\* the rejected error, and whenever send or prepareAndSend rejects, sendState is,
\* for every cause of rejection.
RejectionRecorded(state) == state.status = "error" /\ state.error = ret.err

C5_EveryRejectionRecorded ==
    /\ (ret.op \in {"prepare", "prepareSettled"} /\ ret.result = "reject") =>
           RejectionRecorded(prepareState)
    /\ (ret.op \in {"send", "sendSettled", "prepareAndSend", "prepareAndSendSettled"}
           /\ ret.result = "reject") => RejectionRecorded(sendState)

\* C5 amended: whenever prepare rejects because helper.prepare rejected, prepareState
\* is the error state holding the rejected error, and whenever send or prepareAndSend
\* rejects because the helper call rejected, sendState is.
C5_HelperRejectionRecorded ==
    /\ (ret.op = "prepareSettled" /\ ret.result = "reject") => RejectionRecorded(prepareState)
    /\ (ret.op \in {"sendSettled", "prepareAndSendSettled"} /\ ret.result = "reject") =>
           RejectionRecorded(sendState)

C5_Witness ==
    /\ ret.op = "prepareSettled" /\ ret.result = "reject"
    /\ ret.err = HelperError(2) /\ RejectionRecorded(prepareState)

\* C6: prepare and prepareAndSend called without a lifetime pass the cached value to
\* the helper iff a cache is set and now - updatedAt <= maxAgeMs, else no lifetime;
\* a lifetime given by the caller is passed on unchanged.
CacheIsFresh ==
    /\ latestBlockhashCache.set
    /\ now - latestBlockhashCache.updatedAt <= blockhashMaxAgeMs

C6_CachedLifetimeWithinWindow ==
    ret.helper \in {"prepare", "prepareAndSend"} =>
        ret.lifetime = IF ret.given # NoLifetime THEN ret.given
                       ELSE IF CacheIsFresh THEN latestBlockhashCache.value
                       ELSE NoLifetime

\* the cache is used at the very edge of the window
C6_Witness ==
    /\ ret.helper = "prepare" /\ ret.given = NoLifetime
    /\ latestBlockhashCache.set
    /\ now - latestBlockhashCache.updatedAt = DefaultBlockhashMaxAgeMs
    /\ blockhashMaxAgeMs = DefaultBlockhashMaxAgeMs
    /\ ret.lifetime = CachedLifetime

\* C7: prepare and prepareAndSend fail without invoking the helper when the
\* effective instruction list is empty; send, sign and toWire fail without invoking
\* the helper when no prepared override is given and the pool's prepared is null.
FailedBeforeHelper == ret.result \in {"reject", "throw"} /\ ret.helper = "none"

C7_ValidationBeforeHelper ==
    /\ (ret.op \in {"prepare", "prepareAndSend"}
           /\ (IF ret.has THEN ret.list ELSE instructions) = <<>>) => FailedBeforeHelper
    /\ (ret.op \in {"send", "sign", "toWire"} /\ ~ret.has /\ prepared = NoPrepared) =>
           FailedBeforeHelper

\* an empty override fails although the pool holds an instruction
C7_Witness ==
    /\ ret.op = "prepareAndSend" /\ ret.has /\ ret.list = <<>> /\ instructions # <<>>
    /\ FailedBeforeHelper

\* ------------------------------------------------------------------------
\* Properties of the SPL token helper's sendTransfer
\* ------------------------------------------------------------------------
SubmissionEvents == {"signAndSend", "sendTransaction"}

\* positions of the call log where a transaction was submitted in the given attempt
Submissions(attempt) ==
    {i \in DOMAIN spl.log : /\ spl.log[i].event \in SubmissionEvents
                            /\ spl.log[i].outcome = "called"
                            /\ spl.log[i].attempt = attempt}

\* positions of the call log where something failed in the given attempt
Failures(attempt) ==
    {i \in DOMAIN spl.log : /\ spl.log[i].outcome \notin {"called", "ok"}
                            /\ spl.log[i].attempt = attempt}

FirstSubmissionAlreadyProcessed ==
    \E i \in Failures(1) : /\ spl.log[i].event \in SubmissionEvents
                           /\ spl.log[i].outcome = "AlreadyProcessed"

RejectedWith(error) == spl.pc = "done" /\ spl.result = "rejected" /\ spl.error = error

\* C8: sendTransfer starts a second prepare+submit exactly when the first submission
\* failed with the "already processed" transaction error; a call submits at most twice,
\* once per attempt; every failure of the second attempt, and every failure of the first
\* attempt other than an "already processed" submission, ends the call rejected with
\* that error.
C8_RetryOnlyOnAlreadyProcessed ==
    /\ spl.attempt \in 0..2
    /\ spl.attempt = 2 <=> FirstSubmissionAlreadyProcessed
    /\ Cardinality(Submissions(1)) <= 1 /\ Cardinality(Submissions(2)) <= 1
    /\ Submissions(2) # {} => FirstSubmissionAlreadyProcessed
    /\ \A i \in Failures(2) : RejectedWith(spl.log[i].outcome)
    /\ \A i \in Failures(1) :
          \/ spl.log[i].event \in SubmissionEvents /\ spl.log[i].outcome = "AlreadyProcessed"
          \/ RejectedWith(spl.log[i].outcome) /\ spl.attempt = 1

\* the retry was submitted and failed with "already processed" again
C8_Witness ==
    /\ FirstSubmissionAlreadyProcessed
    /\ \E i \in Failures(2) : /\ spl.log[i].event \in SubmissionEvents
                              /\ spl.log[i].outcome = "AlreadyProcessed"
    /\ Cardinality(Submissions(1) \cup Submissions(2)) = 2
    /\ RejectedWith("AlreadyProcessed")

\* C9: the message of the retry carries a lifetime returned by a getLatestBlockhash call
\* that the second attempt issued after the first submission had failed; it is neither
\* the lifetime of the caller's config nor the lifetime of the first attempt.
C9_RetryUsesFreshLifetime ==
    spl.retriedPrepared # NoSplPrepared =>
        /\ spl.sending = spl.retriedPrepared
        /\ spl.retriedPrepared.lifetime.from = "rpc"
        /\ spl.retriedPrepared.lifetime.call \in DOMAIN spl.log
        /\ spl.log[spl.retriedPrepared.lifetime.call].event = "getLatestBlockhash"
        /\ spl.log[spl.retriedPrepared.lifetime.call].attempt = 2
        /\ \E i \in Failures(1) : /\ spl.log[i].event \in SubmissionEvents
                                  /\ i < spl.retriedPrepared.lifetime.call
        /\ spl.retriedPrepared.lifetime # spl.config.lifetime
        /\ spl.retriedPrepared.lifetime # spl.prepared.lifetime

\* a retry of a call whose config supplied a lifetime has been submitted
C9_Witness ==
    /\ spl.config.lifetime = ConfigSplLifetime
    /\ spl.prepared.lifetime = ConfigSplLifetime
    /\ spl.retriedPrepared # NoSplPrepared
    /\ Submissions(2) # {}

\* ------------------------------------------------------------------------
\* Properties of the Transaction Helper's prepareAndSend
\* ------------------------------------------------------------------------
TunerEnabled == tx.call = "prepareAndSend" /\ tx.request.prepareTransaction.given # "false"

\* positions of the call log with the given event and outcome
TxEvents(events, outcome) ==
    {i \in DOMAIN tx.log : tx.log[i].event \in events /\ tx.log[i].outcome = outcome}

\* the message carries a fee payer, a lifetime, and the request's instructions
\* behind the compute budget prefix
FullyAssembled(message) ==
    /\ message.feePayer # "none"
    /\ message.lifetime # NoBlockhash
    /\ Len(tx.request.instructions) > 0
    /\ Len(message.instructions) >= Len(tx.request.instructions)
    /\ SubSeq(message.instructions,
              Len(message.instructions) - Len(tx.request.instructions) + 1,
              Len(message.instructions)) = tx.request.instructions

\* C10: in a prepareAndSend with the tuner not disabled, prepare returns a fully
\* assembled message first, the tuner simulates that message and returns next, the
\* tuned message is signed only after that and submitted last; when prepare or the
\* tuner fails, nothing is signed and nothing is submitted.
C10_PrepareTuneSignSubmit ==
    TunerEnabled =>
        /\ \A k \in TxEvents({"prepare"}, "returned") : FullyAssembled(tx.log[k].message)
        /\ \A m \in TxEvents({"simulateTransaction"}, "called") :
              \E k \in TxEvents({"prepare"}, "returned") :
                  k < m /\ tx.log[m].message = tx.log[k].message
        /\ \A j \in TxEvents({"prepareTransaction"}, "returned") :
              /\ \E k \in TxEvents({"prepare"}, "returned") : k < j
              /\ \A m \in TxEvents({"simulateTransaction", "getLatestBlockhash"}, "called") :
                    m < j
        /\ \A i \in TxEvents({"sign", "signAndSend"}, "called") :
              \E j \in TxEvents({"prepareTransaction"}, "returned") :
                  j < i /\ tx.log[i].message = tx.log[j].message
        /\ \A i \in TxEvents({"sendTransaction"}, "called") :
              \E h \in TxEvents({"sign"}, "called") :
                  h < i /\ tx.log[i].message = tx.log[h].message
        /\ (tx.result = "rejected" /\ TxEvents({"prepareTransaction"}, "returned") = {}) =>
              TxEvents({"sign", "signAndSend", "sendTransaction"}, "called") = {}

\* a tuned prepareAndSend went through simulation, signing and submission
C10_Witness ==
    /\ TunerEnabled
    /\ TxEvents({"simulateTransaction"}, "called") # {}
    /\ TxEvents({"sign"}, "called") # {}
    /\ TxEvents({"sendTransaction"}, "ok") # {}
    /\ tx.result = "resolved"

\* the signer calls and the submission of the call, by their position in the call log
SendEvents == TxEvents({"sign", "signAndSend", "sendTransaction"}, "called")

\* the overrides of the request set blockhashReset to true
ResetRequested ==
    /\ tx.request.prepareTransaction.given = "options"
    /\ tx.request.prepareTransaction.blockhashReset = "true"

\* C11: in prepareAndSend the tuner runs with blockhashReset = false unless the
\* request's prepareTransaction overrides set blockhashReset to true, and in every
\* other case the message that is signed and submitted carries the lifetime that
\* prepare resolved.
C11_LifetimeKeptUnlessResetRequested ==
    (TunerEnabled /\ ~ResetRequested) =>
        /\ TxEvents({"prepare"}, "returned") # {} => ~shouldResetBlockhash(tx.config)
        /\ \A i \in SendEvents : tx.log[i].message.lifetime = tx.prepared.lifetime

TunerDisabled == tx.call = "prepareAndSend" /\ tx.request.prepareTransaction.given = "false"

\* C12: a prepareAndSend with prepareTransaction: false does not run the tuner: nothing
\* is simulated, the only getLatestBlockhash call is the one prepare makes when the
\* request has no lifetime, and the message handed to send is the message of prepare.
C12_DisabledTunerIsSkipped ==
    TunerDisabled =>
        /\ \A i \in DOMAIN tx.log :
              tx.log[i].event \notin {"simulateTransaction", "prepareTransaction", "logRequest"}
        /\ tx.transaction = NoMessage
        /\ \A i \in TxEvents({"getLatestBlockhash"}, "called") :
              /\ tx.request.lifetime = NoBlockhash
              /\ \A k \in TxEvents({"prepare"}, "returned") :
                    i < k /\ tx.prepared.lifetime = RpcBlockhash(i)
        /\ Cardinality(TxEvents({"getLatestBlockhash"}, "called")) <= 1
        /\ \A i \in SendEvents :
              tx.sending = tx.prepared /\ tx.log[i].message = tx.prepared.message

\* a prepareAndSend with the tuner disabled fetched its lifetime and was submitted
C12_Witness ==
    /\ TunerDisabled
    /\ tx.request.lifetime = NoBlockhash
    /\ TxEvents({"sendTransaction"}, "ok") # {}
    /\ tx.sending = tx.prepared
    /\ tx.result = "resolved"

\* ------------------------------------------------------------------------
\* Properties of the Transaction Helper's send
\* ------------------------------------------------------------------------
\* C13: send takes its path from prepared.mode alone. With mode 'send' the message goes
\* to the sign-and-send path once and rpc.sendTransaction is never called; otherwise the
\* message is signed once and, the signing done, rpc.sendTransaction is called exactly
\* once with preflightCommitment = options.commitment when given, else prepared.commitment.
C13_SendPathFollowsMode ==
    tx.sending # NoTxPrepared =>
        /\ tx.sending.mode = "send" =>
              /\ Cardinality(TxEvents({"signAndSend"}, "called")) = 1
              /\ \A i \in DOMAIN tx.log : tx.log[i].event \notin {"sign", "sendTransaction"}
        /\ tx.sending.mode # "send" =>
              /\ \A i \in DOMAIN tx.log : tx.log[i].event # "signAndSend"
              /\ Cardinality(TxEvents({"sign"}, "called")) = 1
              /\ Cardinality(TxEvents({"sendTransaction"}, "called")) =
                    (IF tx.pc = "sign" \/ TxEvents({"sign"}, "SignerError") # {} THEN 0 ELSE 1)
              /\ tx.result = "resolved" => TxEvents({"sendTransaction"}, "ok") # {}
              /\ TxEvents({"sendTransaction"}, "called") # {} =>
                    tx.preflightCommitment =
                        (IF tx.options.commitment # "undefined"
                         THEN tx.options.commitment
                         ELSE tx.sending.commitment)

\* a signed transaction was submitted with the commitment of the options, not the prepared one
C13_Witness ==
    /\ tx.call = "send"
    /\ tx.sending.mode = "partial"
    /\ tx.options.commitment = "finalized"
    /\ tx.sending.commitment = "processed"
    /\ tx.preflightCommitment = "finalized"
    /\ TxEvents({"sendTransaction"}, "ok") # {}

\* ------------------------------------------------------------------------
\* Properties of the wallet transaction signer
\* ------------------------------------------------------------------------
\* C14: a wallet session exposing signTransaction (with or without sendTransaction) is
\* wrapped as 'partial', one exposing only sendTransaction as 'send', one exposing neither
\* makes the creation fail; the mode and the wallet function behind the signer are those
\* of the moment of creation, whatever the session exposes later and whatever was called.
C14_ClassifiedAtCreation ==
    wallet.createdFrom # "none" =>
        /\ wallet.createdFrom \in {"walletSign", "walletSignAndSend"} =>
              /\ wallet.mode = "partial"
              /\ wallet.error = "none"
              /\ wallet.called \in {"none", "signTransaction"}
        /\ wallet.createdFrom = "walletSendOnly" =>
              /\ wallet.mode = "send"
              /\ wallet.error = "none"
              /\ wallet.called \in {"none", "sendTransaction"}
        /\ wallet.createdFrom = "walletNone" =>
              /\ wallet.mode = "none"
              /\ wallet.error = "Wallet session does not support signing or sending transactions."
              /\ wallet.calls = 0

\* a wallet that signs and sends was wrapped, lost signTransaction, and the signer signed
C14_Witness ==
    /\ wallet.createdFrom = "walletSignAndSend"
    /\ wallet.session = "walletSendOnly"
    /\ wallet.mode = "partial"
    /\ wallet.called = "signTransaction"
    /\ wallet.outcome = "signed"

\* ------------------------------------------------------------------------
\* Properties of the Transaction Helper's prepare
\* ------------------------------------------------------------------------
PrepareReturned == tx.call = "prepare" /\ tx.prepared # NoTxPrepared

\* C15: a Prepared Transaction of mode 'send' has the authority's own signer as its
\* fee-payer signer, at the authority's address; with an address-only fee payer or a
\* fee-payer signer other than the authority's the mode is 'partial'.
C15_SendModeOnlyForAuthorityFeePayer ==
    PrepareReturned =>
        /\ tx.prepared.mode = "send" =>
              /\ tx.prepared.message.feePayerSigner = tx.request.authority
              /\ tx.prepared.feePayer = "authorityAddress"
        /\ (tx.prepared.message.feePayerSigner = "none"
             \/ tx.prepared.message.feePayerSigner # tx.request.authority) =>
              tx.prepared.mode = "partial"

\* the fee payer is another sending signer and the mode stays 'send'
C15_SendModeWithForeignFeePayer ==
    /\ PrepareReturned
    /\ tx.request.authority = "sendingSigner"
    /\ tx.request.feePayer = "feePayerSendingSigner"
    /\ tx.prepared.mode = "send"
    /\ tx.prepared.message.feePayerSigner = "feePayerSendingSigner"

\* C16: prepare with an explicit version 'legacy' or 0 returns a Prepared Transaction and
\* a message of exactly that version, whether or not an instruction references a lookup table.
C16_ExplicitVersionHonoured ==
    (PrepareReturned /\ tx.request.version \in {"legacy", "0"}) =>
        /\ tx.prepared.version = tx.request.version
        /\ tx.prepared.message.version = tx.request.version

\* version 0 was requested for instructions without lookup tables and 'legacy' came back
C16_VersionZeroBecomesLegacy ==
    /\ PrepareReturned
    /\ tx.request.version = "0"
    /\ tx.request.instructions = <<AppInstruction>>
    /\ tx.prepared.version = "legacy"
    /\ tx.prepared.message.version = "legacy"

UsesAddressLookup(instructionList) ==
    \E i \in DOMAIN instructionList :
        instructionList[i].lookup \in {"addressTableLookup", "addressTableLookups"}

\* C17: prepare with version 'auto' or without a version returns version 0 when at least
\* one supplied instruction references an address lookup table, else 'legacy'.
C17_AutoVersionFollowsLookups ==
    (PrepareReturned /\ tx.request.version \in {"auto", "undefined"}) =>
        LET expected == IF UsesAddressLookup(tx.request.instructions) THEN "0" ELSE "legacy"
        IN  /\ tx.prepared.version = expected
            /\ tx.prepared.message.version = expected

\* 'auto' gave version 0 for a list whose only lookup reference is a non-empty
\* addressTableLookups array behind a compute budget instruction
C17_Witness ==
    /\ PrepareReturned
    /\ tx.request.version = "auto"
    /\ Len(tx.request.instructions) = 2
    /\ tx.request.instructions[2].lookup = "addressTableLookups"
    /\ tx.prepared.version = "0"
    /\ tx.prepared.message.version = "0"

\* how many instructions of the list are compute budget instructions of the kind
CountOf(kind, instructionList) ==
    Cardinality({i \in DOMAIN instructionList :
                    /\ instructionList[i].program = "computeBudget"
                    /\ instructionList[i].kind = kind})

BudgetKinds == {"SetComputeUnitLimit", "SetComputeUnitPrice"}

\* the messages prepare returned and the messages handed to a signer, over the whole call
AssembledMessages ==
    {tx.log[i].message : i \in TxEvents({"prepare"}, "returned") \cup SendEvents}
    \cup (IF tx.previous # NoTxPrepared THEN {tx.previous.message} ELSE {})

\* C18: the message prepare assembles is the supplied instructions behind a prefix that
\* holds a compute-unit-limit instruction exactly when the request sets computeUnitLimit
\* and the supplied instructions have none, and a compute-unit-price instruction by the
\* same rule; so with at most one of each supplied, no message of the call holds more than
\* one of each, the second prepare of the same request and the tuned message included.
C18_BudgetPrefixOnlyWhenAbsent ==
    /\ \A i \in TxEvents({"prepare"}, "returned") :
          LET supplied == tx.request.instructions
              wantLimit == /\ tx.request.computeUnitLimit # -1
                           /\ CountOf("SetComputeUnitLimit", supplied) = 0
              wantPrice == /\ tx.request.computeUnitPrice # -1
                           /\ CountOf("SetComputeUnitPrice", supplied) = 0
              prefix ==
                  (IF wantLimit
                   THEN <<getSetComputeUnitLimitInstruction(tx.request.computeUnitLimit)>>
                   ELSE <<>>)
                  \o (IF wantPrice
                      THEN <<getSetComputeUnitPriceInstruction(tx.request.computeUnitPrice)>>
                      ELSE <<>>)
          IN  /\ tx.log[i].message.instructions = prefix \o supplied
              /\ tx.previous # NoTxPrepared =>
                    tx.previous.message.instructions = prefix \o supplied
    /\ (\A kind \in BudgetKinds : CountOf(kind, tx.request.instructions) <= 1) =>
          \A m \in AssembledMessages, kind \in BudgetKinds : CountOf(kind, m.instructions) <= 1

\* a limit was prefixed, the supplied price instruction kept the requested price out, the
\* tuner replaced the prefixed limit in place, and the message was submitted
C18_Witness ==
    /\ tx.call = "prepareAndSend"
    /\ tx.request.computeUnitLimit = 5000
    /\ tx.request.computeUnitPrice = 7
    /\ CountOf("SetComputeUnitPrice", tx.request.instructions) = 1
    /\ CountOf("SetComputeUnitLimit", tx.request.instructions) = 0
    /\ tx.request.prepareTransaction.computeUnitLimitReset
    /\ tx.result = "resolved"
    /\ Head(tx.prepared.message.instructions) = getSetComputeUnitLimitInstruction(5000)
    /\ Head(tx.sending.message.instructions) = getSetComputeUnitLimitInstruction(550000)
    /\ CountOf("SetComputeUnitLimit", tx.sending.message.instructions) = 1

\* ------------------------------------------------------------------------
\* Properties of the compute unit tuner
\* ------------------------------------------------------------------------
Simulated == tx.unitsConsumed # -2

\* the units of the compute-unit-limit instruction of the tuner's message
WrittenLimit ==
    LET list == tx.transaction.instructions
    IN  list[CHOOSE i \in DOMAIN list :
                 list[i].program = "computeBudget" /\ list[i].kind = "SetComputeUnitLimit"].value

\* the multiplier in force, in tenths
MultiplierTenths ==
    IF tx.config.computeUnitLimitMultiplier = -1
    THEN 11
    ELSE tx.config.computeUnitLimitMultiplier

\* max(1, ceil(unitsConsumed x multiplier)) over the rationals
ExactScaled ==
    LET c == (tx.unitsConsumed * MultiplierTenths + 9) \div 10
    IN  IF c > 1 THEN c ELSE 1

\* C19: after a simulation the tuner writes max(1, ceil(unitsConsumed x multiplier)) when
\* unitsConsumed > 0 and 200,000 when unitsConsumed is 0 or absent, the multiplier being
\* 1.1 unless configured; 500,000 at 1.1 gives 550,000.
C19_LimitIsCeilOfScaledUnits ==
    Simulated =>
        /\ tx.unitsConsumed > 0 => WrittenLimit = ExactScaled
        /\ tx.unitsConsumed <= 0 => WrittenLimit = 200000
        /\ (tx.unitsConsumed = 500000 /\ tx.config.computeUnitLimitMultiplier = -1) =>
              WrittenLimit = 550000

\* C19, amended: the ceiling is taken of the double-precision product. The written limit
\* is max(1, ceil(unitsConsumed x multiplier)) or one more; it is exactly that value when
\* the multiplier is a binary fraction (1, 1.5, 0) or the exact product is not an integer;
\* 200,000 when unitsConsumed is 0 or absent; 500,000 at the default 1.1 gives 550,000.
C19_LimitIsCeilOfDoubleProduct ==
    Simulated =>
        /\ tx.unitsConsumed > 0 =>
              /\ WrittenLimit \in {ExactScaled, ExactScaled + 1}
              /\ (MultiplierTenths % 5 = 0 \/ (tx.unitsConsumed * MultiplierTenths) % 10 # 0) =>
                    WrittenLimit = ExactScaled
        /\ tx.unitsConsumed <= 0 => WrittenLimit = 200000
        /\ (tx.unitsConsumed = 500000 /\ tx.config.computeUnitLimitMultiplier = -1) =>
              WrittenLimit = 550000

\* the simulation reported 500,000 units, no multiplier was configured, and the message,
\* which had no limit instruction, ends with one of 550,000 units
C19_Witness ==
    /\ tx.call = "prepareTransaction"
    /\ tx.result = "resolved"
    /\ tx.unitsConsumed = 500000
    /\ tx.config.computeUnitLimitMultiplier = -1
    /\ tx.transaction.instructions = <<AppInstruction, getSetComputeUnitLimitInstruction(550000)>>

TunerReturned == tx.call = "prepareTransaction" /\ tx.result = "resolved"

LifetimeFetches == TxEvents({"getLatestBlockhash"}, "called")

\* C20: the message the tuner returns has a lifetime. With blockhashReset other than
\* false, or an input without lifetime, it is the one fetched by the tuner's last
\* getLatestBlockhash call; with blockhashReset false and an input with a lifetime it is
\* the input's lifetime and getLatestBlockhash was not called.
C20_TunerLifetime ==
    TunerReturned =>
        /\ tx.transaction.lifetime # NoBlockhash
        /\ (tx.config.blockhashReset # "false" \/ tx.input.lifetime = NoBlockhash) =>
              /\ LifetimeFetches # {}
              /\ tx.transaction.lifetime.from = "rpc"
              /\ \A i \in LifetimeFetches : i <= tx.transaction.lifetime.call
              /\ tx.transaction.lifetime # tx.input.lifetime
        /\ (tx.config.blockhashReset = "false" /\ tx.input.lifetime # NoBlockhash) =>
              /\ tx.transaction.lifetime = tx.input.lifetime
              /\ LifetimeFetches = {}

\* blockhashReset false, an input with a lifetime: the limit was tuned by a simulation
\* and the message came back with the lifetime it had, no blockhash fetched
C20_Witness ==
    /\ TunerReturned
    /\ tx.config.blockhashReset = "false"
    /\ tx.input.lifetime = RequestBlockhash
    /\ tx.transaction.lifetime = RequestBlockhash
    /\ Simulated
    /\ LifetimeFetches = {}

LogRequests == {i \in DOMAIN tx.log : tx.log[i].event = "logRequest"}

\* C21: a tuner call that was given logRequest and returns has invoked it exactly once,
\* after every simulation and blockhash fetch of the call, with the message it returns,
\* which holds the tuned limit and a lifetime; a tuner call that fails, or one without
\* logRequest, has not invoked it.
C21_LogRequestOnceWithFinalMessage ==
    tx.call = "prepareTransaction" =>
        /\ (tx.result = "resolved" /\ tx.config.logRequest) =>
              /\ Cardinality(LogRequests) = 1
              /\ \A i \in LogRequests :
                    /\ tx.log[i].message = tx.transaction
                    /\ tx.log[i].message.lifetime # NoBlockhash
                    /\ Simulated => tx.log[i].message.instructions[
                                        computeLimitIndex(tx.transaction.instructions) + 1].value
                                    = WrittenLimit
                    /\ \A j \in DOMAIN tx.log :
                          tx.log[j].event \in {"simulateTransaction", "getLatestBlockhash"}
                              => j < i
                    /\ \A j \in TxEvents({"prepareTransaction"}, "returned") :
                          i < j /\ tx.log[j].message = tx.log[i].message
        /\ (tx.result # "resolved" \/ ~tx.config.logRequest) => LogRequests = {}

\* the limit of the input was replaced, its lifetime was replaced, and logRequest was
\* then invoked with the message that came back
C21_Witness ==
    /\ tx.call = "prepareTransaction"
    /\ tx.result = "resolved"
    /\ tx.config.logRequest
    /\ tx.config.computeUnitLimitReset
    /\ tx.input.lifetime = RequestBlockhash
    /\ computeLimitIndex(tx.input.instructions) = 0
    /\ tx.unitsConsumed = 500000
    /\ tx.transaction.lifetime.from = "rpc"
    /\ \E i \in LogRequests : tx.log[i].message = tx.transaction /\ tx.transaction # tx.input

\* ------------------------------------------------------------------------
\* Failures of the Transaction Helper's prepare
\* ------------------------------------------------------------------------
PrepareCalled ==
    tx.call \in {"prepare", "prepareAndSend"} /\ Len(tx.request.instructions) > 0

\* C22: prepare called on a non-empty list with a signal that is already aborted rejects
\* with the abort failure and fetches no lifetime; when the signal is aborted while the
\* lifetime fetch is pending, prepare returns no Prepared Transaction and rejects.
C22_AbortedPrepareRejects ==
    PrepareCalled =>
        /\ (tx.aborted /\ tx.abortedAt = "none") =>
              /\ tx.pc = "done"
              /\ tx.result = "rejected"
              /\ tx.error = "Aborted"
              /\ tx.log = <<>>
              /\ tx.prepared = NoTxPrepared
        /\ tx.abortedAt = "prepare.getLatestBlockhash" =>
              /\ tx.prepared = NoTxPrepared
              /\ TxEvents({"prepare"}, "returned") = {}
              /\ tx.pc \in {"prepare.getLatestBlockhash", "done"}
              /\ tx.pc = "done" => tx.result = "rejected"

\* the signal was aborted during the fetch, the fetch still delivered a blockhash, and
\* prepare rejected with the abort failure
C22_Witness ==
    /\ tx.call = "prepare"
    /\ tx.abortedAt = "prepare.getLatestBlockhash"
    /\ TxEvents({"getLatestBlockhash"}, "RpcError") = {}
    /\ tx.result = "rejected"
    /\ tx.error = "Aborted"

\* the request cannot be prepared: no instruction, nobody to pay, or a wallet that can
\* neither sign nor send
Malformed ==
    \/ Len(tx.request.instructions) = 0
    \/ tx.request.feePayer = "none" /\ tx.request.authority = "none"
    \/ tx.request.authority = "walletNone"

\* C23: prepare called with an empty instruction list, with neither fee payer nor
\* authority, or with a wallet session that can neither sign nor send, rejects before
\* any RPC call is issued.
C23_MalformedRequestRejectsBeforeRpc ==
    (tx.call \in {"prepare", "prepareAndSend"} /\ Malformed) =>
        /\ tx.pc = "done"
        /\ tx.result = "rejected"
        /\ tx.log = <<>>
        /\ tx.prepared = NoTxPrepared
        /\ tx.error = IF Len(tx.request.instructions) = 0 THEN "EmptyInstructions"
                      ELSE IF tx.aborted THEN "Aborted"
                      ELSE IF tx.request.authority = "walletNone" THEN "WalletUnsupported"
                      ELSE "NoFeePayer"

\* instructions were given, the signal was not aborted, and prepare rejected for want
\* of a fee payer without a single RPC call
C23_Witness ==
    /\ tx.call = "prepare"
    /\ Len(tx.request.instructions) > 0
    /\ tx.request.feePayer = "none"
    /\ tx.request.authority = "none"
    /\ tx.request.lifetime = NoBlockhash
    /\ ~tx.aborted
    /\ tx.error = "NoFeePayer"
    /\ tx.log = <<>>

\* ------------------------------------------------------------------------
\* Failures of the transfer helpers
\* ------------------------------------------------------------------------
\* C24: prepareTransfer (and so sendTransfer) given a negative or malformed amount
\* rejects before any RPC call: no lifetime fetch, no mint fetch, no destination lookup.
C24_InvalidAmountRejectsBeforeRpc ==
    (spl.pc # "idle" /\ ~spl.request.amountValid) =>
        /\ spl.log = <<>>
        /\ spl.pc = "done"
        /\ spl.result = "rejected"

\* the amount was refused only after the blockhash and the mint had been fetched
C24_InvalidAmountAfterFetches ==
    /\ ~spl.request.amountValid
    /\ spl.result = "rejected"
    /\ spl.error = "InvalidAmount"
    /\ \E i, j \in DOMAIN spl.log :
          /\ i < j
          /\ spl.log[i].event = "getLatestBlockhash"
          /\ spl.log[j].event = "fetchMint"

\* C25: an RPC call that failed ends the operation rejected with that very error, for the
\* Transaction Helper, the tuner and the SPL helper alike (an 'already processed' failure
\* counts when it is the retry that met it); no operation resolves after an RPC failure.
C25_RpcFailuresPropagate ==
    /\ \A i \in DOMAIN spl.log :
          (\/ spl.log[i].outcome = "RpcError"
           \/ spl.log[i].outcome = "AlreadyProcessed" /\ spl.log[i].attempt = 2)
              => RejectedWith(spl.log[i].outcome)
    /\ \A i \in DOMAIN tx.log :
          tx.log[i].outcome = "RpcError" =>
              tx.pc = "done" /\ tx.result = "rejected" /\ tx.error = "RpcError"

\* the balance request failed and fetchBalance resolved with an account that does not exist
C25_BalanceFailureSwallowed ==
    /\ spl.call = "fetchBalance"
    /\ spl.pc = "done"
    /\ spl.result = "balance"
    /\ ~spl.exists
    /\ \E i \in DOMAIN spl.log :
          spl.log[i].event = "getTokenAccountBalance" /\ spl.log[i].outcome = "RpcError"

\* ------------------------------------------------------------------------
\* C26: the commitment recorded in a Prepared Transaction is the request's commitment
\* when the request gives one, and otherwise the cluster commitment the store held when
\* that prepare call was made, so a later call on the same helper records the new value
C26_CommitmentReadAtCallTime ==
    PrepareReturned =>
        tx.prepared.commitment =
            IF tx.request.commitment # "undefined"
            THEN tx.request.commitment
            ELSE tx.fallback

\* a second prepare call with the same request, made after setCluster changed the
\* commitment and served by a lifetime fetch during which it changed again, records the
\* commitment of its call time while the first call recorded the initial one
C26_Witness ==
    /\ PrepareReturned
    /\ tx.request.commitment = "undefined"
    /\ tx.request.lifetime = NoBlockhash
    /\ tx.previous # NoTxPrepared
    /\ tx.previous.commitment = "confirmed"
    /\ tx.prepared.commitment = "finalized"
    /\ cluster.commitment = "processed"

\* ------------------------------------------------------------------------
\* the decimal string of a fromDecimal call as the parser reads it, and its parts
Sanitized == trim(removeUnderscores(numeric.value.str))

ValidDecimalString == numeric.value.type = "string" /\ matchesDecimalPattern(Sanitized)

FractionalDigits ==
    IF indexOfDot(Sanitized) = 0
    THEN <<>>
    ELSE SubSeq(Sanitized, indexOfDot(Sanitized) + 1, Len(Sanitized))

\* the digits beyond the decimals-th fractional digit
DigitsBeyond ==
    IF Len(FractionalDigits) > numeric.decimals
    THEN SubSeq(FractionalDigits, numeric.decimals + 1, Len(FractionalDigits))
    ELSE <<>>

FloorOfInput ==
    decimalToBaseUnits(numeric.value.str, numeric.decimals, pow10(numeric.decimals), "floor")

FromDecimalReturned == numeric.last = "fromDecimal" /\ numeric.pc = "returned"

\* C27: for a valid decimal string, fromDecimal with 'ceil' is fromDecimal with 'floor'
\* plus one when the digits beyond the decimals-th fractional digit are not all zero and
\* equal to it otherwise; with 'round' it is the floor plus one exactly when the
\* (decimals+1)-th fractional digit is 5 or more.
C27_CeilAndRoundAgainstFloor ==
    (numeric.last = "fromDecimal" /\ ValidDecimalString) =>
        /\ numeric.pc = "returned"
        /\ FloorOfInput.status = "returned"
        /\ numeric.rounding = "ceil" =>
               numeric.result =
                   FloorOfInput.value
                   + (IF \E i \in 1..Len(DigitsBeyond) : DigitsBeyond[i] # "0" THEN 1 ELSE 0)
        /\ numeric.rounding = "round" =>
               numeric.result =
                   FloorOfInput.value
                   + (IF Len(DigitsBeyond) > 0 /\ DigitsBeyond[1] \in {"5", "6", "7", "8", "9"}
                      THEN 1
                      ELSE 0)
        /\ numeric.rounding \in {"floor", "undefined"} => numeric.result = FloorOfInput.value

\* '0.045' parsed with one decimal and 'ceil': the digit beyond is below 5 and the
\* remainder is not zero, so the result is one above the floor
C27_Witness ==
    /\ FromDecimalReturned
    /\ ValidDecimalString
    /\ numeric.decimals = 1
    /\ numeric.rounding = "ceil"
    /\ DigitsBeyond = <<"4", "5">>
    /\ numeric.result = FloorOfInput.value + 1

\* ------------------------------------------------------------------------
\* fromDecimal parsed a valid decimal string with at most decimals fractional digits and
\* toDecimalString, with default options, formatted what it returned
ExactRoundTrip ==
    /\ numeric.op = "fromDecimal"
    /\ numeric.last = "toDecimalString"
    /\ ValidDecimalString
    /\ Len(FractionalDigits) <= numeric.decimals

IntegerDigits ==
    IF indexOfDot(Sanitized) = 0
    THEN Sanitized
    ELSE SubSeq(Sanitized, 1, indexOfDot(Sanitized) - 1)

RECURSIVE WithoutLeadingZeros(_)
WithoutLeadingZeros(digits) ==
    IF Len(digits) > 1 /\ Head(digits) = "0" THEN WithoutLeadingZeros(Tail(digits)) ELSE digits

RECURSIVE WithoutTrailingZeros(_)
WithoutTrailingZeros(digits) ==
    IF Len(digits) > 0 /\ digits[Len(digits)] = "0"
    THEN WithoutTrailingZeros(SubSeq(digits, 1, Len(digits) - 1))
    ELSE digits

\* the shortest decimal string of the same value
Canonical ==
    IF WithoutTrailingZeros(FractionalDigits) = <<>>
    THEN WithoutLeadingZeros(IntegerDigits)
    ELSE WithoutLeadingZeros(IntegerDigits) \o <<".">> \o WithoutTrailingZeros(FractionalDigits)

\* C28 as stated: toDecimalString(fromDecimal(x)) is x itself for every valid decimal
\* string x with at most decimals fractional digits
C28_RoundTripReturnsInput ==
    ExactRoundTrip => (numeric.pc = "returned" /\ numeric.text = numeric.value.str)

\* C28: toDecimalString(fromDecimal(x)) is the shortest decimal string of the value of x:
\* x without separators and surrounding blanks, without leading zeros of the integer
\* part and without trailing zeros of the fraction; it is x itself exactly when x is
\* written that way, and parsing it again gives the same amount
C28_RoundTripReturnsCanonical ==
    ExactRoundTrip =>
        /\ numeric.pc = "returned"
        /\ numeric.text = Canonical
        /\ (numeric.text = numeric.value.str) <=> (numeric.value.str = Canonical)
        /\ decimalToBaseUnits(numeric.text, numeric.decimals, pow10(numeric.decimals),
                              "floor") = NumericReturned(numeric.result)

\* '4.05' with two decimals comes back as '4.05', through the amount 405
C28_Witness ==
    /\ ExactRoundTrip
    /\ numeric.decimals = 2
    /\ numeric.value.str = <<"4", ".", "0", "5">>
    /\ numeric.result = 405
    /\ numeric.text = numeric.value.str

\* ------------------------------------------------------------------------
\* the calls whose results are amounts
AmountCalls == {"fromBaseUnits", "fromDecimal", "add", "subtract", "multiplyByRatio"}

\* a string that, without separators and surrounding blanks, is '-' followed by a decimal
\* number other than zero
NegativeString(str) ==
    LET sanitized == trim(removeUnderscores(str))
    IN  /\ Len(sanitized) > 1
        /\ Head(sanitized) = "-"
        /\ matchesDecimalPattern(Tail(sanitized))
        /\ \E i \in 2..Len(sanitized) : sanitized[i] \notin {"0", "."}

NegativeValue(value) ==
    \/ value.type = "bigint" /\ value.int < 0
    \/ value.type = "number" /\ value.integer /\ value.safe /\ value.int < 0
    \/ value.type = "number" /\ value.finite /\ ~value.integer /\ NegativeString(value.str)
    \/ value.type = "string" /\ NegativeString(value.str)

\* the call that has just settled was given a negative operand
NegativeOperand ==
    \/ numeric.last \in {"fromBaseUnits", "fromDecimal"} /\ NegativeValue(numeric.value)
    \/ numeric.last \in {"add", "subtract"} /\ (numeric.lhs < 0 \/ numeric.rhs < 0)
    \/ numeric.last = "multiplyByRatio" /\ numeric.lhs < 0

SubtractBelowZero == numeric.last = "subtract" /\ numeric.rhs > numeric.lhs

\* fromDecimal hands the operand to the decimal parser as a string
ParsedAsDecimalString ==
    /\ numeric.last = "fromDecimal"
    /\ \/ numeric.value.type = "string"
       \/ numeric.value.type = "number" /\ ~numeric.value.integer /\ numeric.decimals > 0

RatioApplied == numeric.last = "multiplyByRatio" /\ numeric.lhs >= 0

\* amount x numerator
Product == numeric.lhs * numeric.ratio.numerator

\* the largest integer q with q x denominator <= amount x numerator
FloorOfRatio ==
    CHOOSE q \in 0..Product :
        /\ q * numeric.ratio.denominator <= Product
        /\ (q + 1) * numeric.ratio.denominator > Product

\* the smallest integer q with q x denominator >= amount x numerator
CeilOfRatio ==
    CHOOSE q \in 0..Product :
        /\ q * numeric.ratio.denominator >= Product
        /\ (q = 0 \/ (q - 1) * numeric.ratio.denominator < Product)

\* the integer nearest to the quotient, the upper one when two are equally near
RoundOfRatio ==
    CHOOSE q \in 0..(Product + 1) :
        /\ 2 * q * numeric.ratio.denominator <= 2 * Product + numeric.ratio.denominator
        /\ 2 * (q + 1) * numeric.ratio.denominator > 2 * Product + numeric.ratio.denominator

\* C30: multiplyByRatio returns the floor, the ceiling or the half-up rounding of
\* amount x numerator / denominator according to the rounding mode, floor when none is
\* given, and floor <= round <= ceil <= floor + 1
C30_RatioRounding ==
    RatioApplied =>
        /\ numeric.pc = "returned"
        /\ numeric.ratio.numerator >= 0
        /\ numeric.ratio.denominator > 0
        /\ numeric.result = (CASE numeric.rounding = "ceil" -> CeilOfRatio
                               [] numeric.rounding = "round" -> RoundOfRatio
                               [] OTHER -> FloorOfRatio)
        /\ FloorOfRatio <= RoundOfRatio
        /\ RoundOfRatio <= CeilOfRatio
        /\ CeilOfRatio <= FloorOfRatio + 1

\* 11 x 1/3 rounded: 3.67 becomes 4, the ceiling, while the floor is 3
C30_Witness ==
    /\ RatioApplied
    /\ numeric.lhs = 11
    /\ numeric.ratio = [numerator |-> 1, denominator |-> 3]
    /\ numeric.rounding = "round"
    /\ numeric.result = 4
    /\ FloorOfRatio = 3

\* ------------------------------------------------------------------------
\* C31: no listener is invoked while the instruction list has been replaced by a mutation
\* and prepared is still set or a state is not yet idle, and a controller.send() issued
\* from inside a listener during a mutation never sends a Prepared Transaction built from
\* another instruction list than the pool's
C31_ListenersSeeMutationWhole ==
    stores.pc = "ready" =>
        /\ \A i \in 1..Len(stores.seen) :
               stores.seen[i].during = "commitInstructions" =>
                   /\ ~stores.seen[i].prepared.set
                   /\ stores.seen[i].prepareState = "idle"
                   /\ stores.seen[i].sendState = "idle"
        /\ \A i \in 1..Len(stores.sending) :
               (stores.sending[i].from = "listener"
                   /\ stores.sending[i].during = "commitInstructions") =>
                   stores.sending[i].target.instructions = stores.sending[i].pool

\* a listener of the instruction store called send() during a mutation: the transaction
\* prepared from ixA is with the helper while the pool holds ixB, and the mutation has
\* since put the send state back to idle
C31_StaleSentFromListener ==
    /\ stores.pc = "ready"
    /\ stores.listener = "instructions"
    /\ stores.instructions = <<"ixB">>
    /\ Len(stores.sending) = 1
    /\ stores.sending[1].from = "listener"
    /\ stores.sending[1].during = "commitInstructions"
    /\ stores.sending[1].target.instructions = <<"ixA">>
    /\ Len(stores.seen) = 1
    /\ stores.seen[1].prepared.set
    /\ stores.seen[1].instructions = <<"ixB">>
    /\ ~stores.prepared.set
    /\ stores.sendState = "idle"

\* ------------------------------------------------------------------------
\* the tuner was called, directly or by prepareAndSend
TunerCalled == tx.input # NoMessage

\* the tuner's transaction when it has returned
TunerDone ==
    /\ TunerCalled
    /\ \E i \in DOMAIN tx.log :
           tx.log[i].event = "prepareTransaction" /\ tx.log[i].outcome = "returned"

SimulateCalls == TxEvents({"simulateTransaction"}, "called")

IsLimitInstruction(i) == i.program = "computeBudget" /\ i.kind = "SetComputeUnitLimit"

\* the input has a compute-unit-limit instruction; the position of the first one
InputHasLimit == \E i \in DOMAIN tx.input.instructions : IsLimitInstruction(tx.input.instructions[i])

InputLimitAt ==
    CHOOSE i \in DOMAIN tx.input.instructions :
        /\ IsLimitInstruction(tx.input.instructions[i])
        /\ \A j \in 1..(i - 1) : ~IsLimitInstruction(tx.input.instructions[j])

MustEstimate == ~InputHasLimit \/ tx.config.computeUnitLimitReset

\* what C32 says of the simulation and of the instructions
TunedInstructions ==
    /\ (TunerCalled /\ SimulateCalls # {}) => MustEstimate
    /\ TunerDone =>
           LET in == tx.input.instructions
               out == tx.transaction.instructions
           IN  /\ MustEstimate => Cardinality(SimulateCalls) = 1
               /\ ~MustEstimate => out = in
               /\ (MustEstimate /\ InputHasLimit) =>
                      /\ Len(out) = Len(in)
                      /\ IsLimitInstruction(out[InputLimitAt])
                      /\ \A j \in DOMAIN in : j # InputLimitAt => out[j] = in[j]
               /\ (MustEstimate /\ ~InputHasLimit) =>
                      /\ Len(out) = Len(in) + 1
                      /\ IsLimitInstruction(out[Len(out)])
                      /\ \A j \in DOMAIN in : out[j] = in[j]
    /\ TunerCalled => tx.inputObject = tx.input

\* C32 as stated: the tuner simulates exactly when the input has no compute-unit-limit
\* instruction or computeUnitLimitReset is true; a replaced limit instruction keeps its
\* index, an added one comes last, the other instructions keep content and order; the
\* input message is never mutated and what is returned is a new message
C32_TunerReturnsNewMessage ==
    /\ TunedInstructions
    /\ TunerDone => tx.fresh

\* C32: as above, except that the message returned is a new object only when the tuner
\* changed something; when it neither estimated nor fetched a lifetime (limit present, no
\* reset of the limit, blockhashReset false, lifetime present) it returns the input
\* message object itself
C32_TunerFrame ==
    /\ TunedInstructions
    /\ TunerDone =>
           /\ tx.fresh <=> (MustEstimate
                              \/ tx.config.blockhashReset # "false"
                              \/ tx.input.lifetime = NoBlockhash)
           /\ ~tx.fresh => tx.transaction = tx.input

\* the limit in the middle of three instructions is replaced where it stands
C32_Witness ==
    /\ TunerDone
    /\ tx.call = "prepareTransaction"
    /\ tx.config.computeUnitLimitReset
    /\ Len(tx.input.instructions) = 3
    /\ InputLimitAt = 2
    /\ tx.transaction.instructions[2] = getSetComputeUnitLimitInstruction(550000)
    /\ tx.input.instructions[2] = getSetComputeUnitLimitInstruction(1000)
    /\ tx.transaction.instructions[3] = tx.input.instructions[3]
    /\ tx.fresh

\* ------------------------------------------------------------------------
\* prepare has assembled its message
Assembled == tx.assembly # <<>>

\* C33: the message prepare assembles holds the compute-unit-limit prefix if one was
\* added, then the compute-unit-price prefix if one was added, then the caller's
\* instructions in their order; the lifetime is bound to the message that already holds
\* these instructions; prepared.instructions is the caller's instructions alone.
C33_PrefixThenCallerInstructions ==
    Assembled =>
        LET own == tx.request.instructions
            limitPrefix ==
                IF tx.prepared.computeUnitLimit # -1
                THEN <<[program |-> "computeBudget", kind |-> "SetComputeUnitLimit",
                        lookup |-> "absent", value |-> tx.prepared.computeUnitLimit]>>
                ELSE <<>>
            pricePrefix ==
                IF tx.prepared.computeUnitPrice # -1
                THEN <<[program |-> "computeBudget", kind |-> "SetComputeUnitPrice",
                        lookup |-> "absent", value |-> tx.prepared.computeUnitPrice]>>
                ELSE <<>>
        IN  /\ Len(tx.assembly) = 4
            /\ tx.prepared.message = tx.assembly[4]
            /\ tx.prepared.message.instructions = limitPrefix \o pricePrefix \o own
            /\ tx.prepared.instructions = own
            /\ tx.assembly[2].instructions = <<>>
            /\ tx.assembly[3].instructions = tx.prepared.message.instructions
            /\ tx.assembly[3].lifetime = NoBlockhash
            /\ tx.assembly[4].lifetime = tx.prepared.lifetime
            /\ tx.prepared.lifetime # NoBlockhash

\* both prefixes in front of the caller's two instructions
C33_Witness ==
    /\ Assembled
    /\ tx.call = "prepare"
    /\ tx.pc = "done"
    /\ Len(tx.request.instructions) = 2
    /\ Len(tx.prepared.message.instructions) = 4
    /\ tx.prepared.message.instructions[1].kind = "SetComputeUnitLimit"
    /\ tx.prepared.message.instructions[2].kind = "SetComputeUnitPrice"
    /\ tx.prepared.message.instructions[3] = tx.request.instructions[1]
    /\ tx.prepared.message.instructions[4] = tx.request.instructions[2]
    /\ tx.request.instructions[1] # tx.request.instructions[2]

\* ------------------------------------------------------------------------
\* C34: the partial signer hands the input transactions to the wallet's signTransaction
\* one at a time in input order, each at most once and all of them when it returns; it
\* returns one merged transaction per input in that order and leaves the inputs as they
\* were; a wallet result without a signature for the signer's address makes the whole
\* call reject with nothing returned.
C34_SignsEachInOrderOrRejects ==
    LET n == Len(wallet.signCalls)
        missing == "Wallet did not populate the expected fee payer signature."
    IN  /\ n <= Len(wallet.transactions)
        /\ \A i \in 1..n : wallet.signCalls[i] = wallet.transactions[i]
        /\ wallet.inputNow = wallet.transactions
        /\ wallet.hasReturned =>
              /\ n = Len(wallet.transactions)
              /\ Len(wallet.returned) = Len(wallet.transactions)
              /\ \A i \in 1..n :
                    /\ wallet.returned[i].messageBytes = wallet.signed[i].messageBytes
                    /\ wallet.returned[i].signatures.wallet = wallet.signed[i].signatures.wallet
                    /\ wallet.returned[i].signatures.other =
                          IF wallet.signed[i].signatures.other # "absent"
                          THEN wallet.signed[i].signatures.other
                          ELSE wallet.transactions[i].signatures.other
        /\ (\E i \in 1..Len(wallet.signed) : wallet.signed[i].signatures.wallet = "absent") =>
              /\ wallet.pc = "idle"
              /\ wallet.outcome = missing
              /\ ~wallet.hasReturned
              /\ wallet.returned = <<>>
        /\ wallet.outcome = missing => ~wallet.hasReturned

\* two different transactions signed and merged, a signature of the input kept
C34_Witness ==
    /\ wallet.hasReturned
    /\ Len(wallet.transactions) = 2
    /\ wallet.transactions[1] # wallet.transactions[2]
    /\ Len(wallet.signCalls) = 2
    /\ Len(wallet.returned) = 2
    /\ wallet.transactions[2].signatures.other = "signatureOther"
    /\ wallet.returned[2].signatures = [wallet |-> "signatureWallet", other |-> "signatureOther"]
    /\ wallet.returned[1].messageBytes = "w"

\* ------------------------------------------------------------------------
\* The SOL transfer controller: one async state, a set of listeners, send and reset.
\* solTransfer.pending holds the send calls awaiting helper.sendTransfer, each with the
\* states it has set so far; solTransfer.last describes the last call made on the
\* controller or the last settlement.
\* ------------------------------------------------------------------------
MaxTransfers == 2  \* send calls of one SOL transfer controller awaiting the helper at once

TransferListeners == {"first", "second"}

TransferFrame == UNCHANGED <<OtherVars, stores, watch, connection>>

\* createInitialAsyncState<SolTransferSignature>()
initialSignatureState == [status |-> "idle", data |-> "undefined", error |-> "undefined"]

\* createAsyncState<SolTransferSignature>(status, { data, error })
signatureState(status, data, error) == [status |-> status, data |-> data, error |-> error]

NoTransferLast ==
    [op |-> "none", authority |-> "undefined", before |-> initialSignatureState,
     subscribers |-> {}, changes |-> 0, calls |-> [l \in TransferListeners |-> 0],
     helperCalled |-> FALSE, thrown |-> "none", value |-> "none",
     trace |-> <<>>]

createSolTransferController(authorityProvider) ==
    [pc |-> "ready", authorityProvider |-> authorityProvider,
     state |-> initialSignatureState, listeners |-> {}, pending |-> <<>>,
     last |-> NoTransferLast]

\* a call or a settlement begins: what it changes is counted from here
transferEntered(s, op) ==
    [s EXCEPT !.last = [NoTransferLast EXCEPT !.op = op, !.before = s.state,
                                              !.subscribers = s.listeners]]

\* input.authority ?? resolveDefault?.(), "throws" when that is not an authority
ensureAuthority(input, resolveDefault) ==
    LET authority == IF input # "undefined"
                     THEN input
                     ELSE IF resolveDefault = "absent" THEN "undefined" ELSE resolveDefault
    IN  IF authority = "undefined" THEN "throws" ELSE authority

notify(s) ==
    [s EXCEPT !.last.calls = [l \in TransferListeners |->
                                 IF l \in s.listeners THEN @[l] + 1 ELSE @[l]]]

setState_QuietWhenStatusKept(s, next) ==
    IF next.status = s.state.status
    THEN [s EXCEPT !.state = next, !.last.changes = @ + 1]
    ELSE notify([s EXCEPT !.state = next, !.last.changes = @ + 1])

setState(s, next) == notify([s EXCEPT !.state = next, !.last.changes = @ + 1])

solTransfer_subscribe(listener) ==
    /\ solTransfer.pc = "ready"
    /\ listener \notin solTransfer.listeners
    /\ solTransfer' = [transferEntered(solTransfer, "subscribe") EXCEPT
                          !.listeners = @ \cup {listener}]
    /\ TransferFrame

\* the function subscribe returned is called
solTransfer_unsubscribe(listener) ==
    /\ solTransfer.pc = "ready"
    /\ listener \in solTransfer.listeners
    /\ solTransfer' = [transferEntered(solTransfer, "unsubscribe") EXCEPT
                          !.listeners = @ \ {listener}]
    /\ TransferFrame

\* send(config, options) up to its await
solTransfer_send(authority) ==
    /\ solTransfer.pc = "ready"
    /\ Len(solTransfer.pending) < MaxTransfers
    /\ LET entered == [transferEntered(solTransfer, "send") EXCEPT !.last.authority = authority]
           request == ensureAuthority(authority, solTransfer.authorityProvider)
       IN  solTransfer' =
               IF request = "throws"
               THEN [entered EXCEPT
                        !.last.thrown =
                            "Connect a wallet or supply an authority before sending SOL transfers."]
               ELSE LET loading == setState(entered,
                                            signatureState("loading", "undefined", "undefined"))
                    IN  [loading EXCEPT
                            !.last.helperCalled = TRUE,
                            !.pending = Append(@, [authority |-> request,
                                                   trace |-> <<loading.state>>])]
    /\ TransferFrame

\* helper.sendTransfer of the i-th pending send settles
solTransfer_sendTransferSettled(i, ok, value) ==
    /\ solTransfer.pc = "ready"
    /\ i \in 1..Len(solTransfer.pending)
    /\ LET entered == transferEntered(solTransfer, "settled")
           set == setState(entered,
                           IF ok THEN signatureState("success", value, "undefined")
                                 ELSE signatureState("error", "undefined", value))
       IN  solTransfer' =
               [set EXCEPT
                   !.pending = SubSeq(@, 1, i - 1) \o SubSeq(@, i + 1, Len(@)),
                   !.last.value = value,
                   !.last.thrown = IF ok THEN "none" ELSE value,
                   !.last.trace = Append(solTransfer.pending[i].trace, set.state)]
    /\ TransferFrame

solTransfer_reset ==
    /\ solTransfer.pc = "ready"
    /\ solTransfer' = setState(transferEntered(solTransfer, "reset"), initialSignatureState)
    /\ TransferFrame

TransferInit ==
    /\ createTransactionPoolController
    /\ spl = SplIdle
    /\ tx = TxIdle
    /\ wallet = NoWalletSigner
    /\ cluster = createClusterState
    /\ numeric = NoNumeric
    /\ stores = NoStores
    /\ \E authorityProvider \in {"absent", "undefined", "walletSigner"} :
           solTransfer = createSolTransferController(authorityProvider)
    /\ watch = NoWatch
    /\ connection = NoConnection

TransferNext ==
    \/ \E listener \in TransferListeners : solTransfer_subscribe(listener)
    \/ \E listener \in TransferListeners : solTransfer_unsubscribe(listener)
    \/ \E authority \in {"undefined", "signer"} : solTransfer_send(authority)
    \/ \E i \in 1..MaxTransfers :
           \/ \E signature \in {"sig-1", "sig-2"} : solTransfer_sendTransferSettled(i, TRUE, signature)
           \/ solTransfer_sendTransferSettled(i, FALSE, "transfer failed")
    \/ solTransfer_reset

TransferSpec == TransferInit /\ [][TransferNext]_vars

\* the send call made last had an authority in its input or from the provider
AuthorityAvailable ==
    \/ solTransfer.last.authority # "undefined"
    \/ solTransfer.authorityProvider \notin {"absent", "undefined"}

\* C35: a send sets 'loading' and, when the helper settles, 'success' with the
\* signature or 'error' with the error; every change calls each subscriber once;
\* reset leaves 'idle'; a send without an authority in the input or from the provider
\* rejects with the state as it was, no subscriber called and the helper not called.
C35_SendLoadingThenSettled ==
    LET last == solTransfer.last
        loading == [status |-> "loading", data |-> "undefined", error |-> "undefined"]
    IN  /\ \A i \in 1..Len(solTransfer.pending) : solTransfer.pending[i].trace = <<loading>>
        /\ last.op = "settled" =>
              /\ Len(last.trace) = 2
              /\ last.trace[1] = loading
              /\ \/ /\ last.thrown = "none"
                    /\ last.trace[2] = [status |-> "success", data |-> last.value,
                                        error |-> "undefined"]
                 \/ /\ last.thrown = last.value
                    /\ last.trace[2] = [status |-> "error", data |-> "undefined",
                                        error |-> last.value]
              /\ solTransfer.state = last.trace[2]
              /\ last.changes = 1
        /\ \A l \in TransferListeners :
              last.calls[l] = IF l \in last.subscribers THEN last.changes ELSE 0
        /\ last.op = "reset" =>
              /\ solTransfer.state = [status |-> "idle", data |-> "undefined",
                                      error |-> "undefined"]
              /\ last.changes = 1
        /\ (last.op = "send" /\ AuthorityAvailable) =>
              /\ solTransfer.state = loading
              /\ last.changes = 1
              /\ last.helperCalled
              /\ last.thrown = "none"
        /\ (last.op = "send" /\ ~AuthorityAvailable) =>
              /\ last.thrown # "none"
              /\ solTransfer.state = last.before
              /\ last.changes = 0
              /\ \A l \in TransferListeners : last.calls[l] = 0
              /\ ~last.helperCalled

\* a second send was started while the first was loading, and the first has succeeded
\* in front of a subscriber
C35_Witness ==
    /\ solTransfer.pc = "ready"
    /\ solTransfer.last.op = "settled"
    /\ solTransfer.last.before.status = "loading"
    /\ solTransfer.state.status = "success"
    /\ solTransfer.state.data = "sig-2"
    /\ solTransfer.last.subscribers = {"first"}
    /\ solTransfer.last.calls["first"] = 1
    /\ Len(solTransfer.pending) = 1

\* ------------------------------------------------------------------------
\* The account watcher: watchAccount starts handleAccountNotifications and returns a
\* handle. watch.pc is where handleAccountNotifications stands; watch.subscription is
\* store.subscriptions.account[key], watch.account is store.accounts[key]. The runtime
\* is an outside party: its subscribe promise and its iterator settle as they choose,
\* also after the abort signal has fired.
\* ------------------------------------------------------------------------
WatchFrame == UNCHANGED <<OtherVars, stores, solTransfer, connection>>

NoSubscriptionStatus == [status |-> "none", error |-> "undefined"]

createWatchers ==
    [pc |-> "idle", commitment |-> "none", aborted |-> FALSE,
     subscription |-> NoSubscriptionStatus, account |-> "none",
     logged |-> "none",
     activeAfterAbort |-> FALSE,  \* 'active' or 'error' was stored after abort()
     writtenAfterAbort |-> FALSE  \* an account entry was stored after abort()
    ]

setSubscriptionStatus(s, status) ==
    [s EXCEPT !.subscription = status,
              !.activeAfterAbort = @ \/ (s.aborted /\ status.status \in {"active", "error"})]

\* the handler of the abort event and the call in the handle's abort()
onAbort(s) == setSubscriptionStatus(s, [status |-> "inactive", error |-> "undefined"])

\* catch (error) of handleAccountNotifications
subscriptionFailed(s, error) ==
    IF ~s.aborted
    THEN setSubscriptionStatus([s EXCEPT !.pc = "returned",
                                         !.logged = "account subscription failed"],
                               [status |-> "error", error |-> error])
    ELSE [s EXCEPT !.pc = "returned"]

\* watchAccount(config, listener): handleAccountNotifications runs up to its first await
watchAccount(configCommitment) ==
    /\ watch.pc = "idle"
    /\ watch' = setSubscriptionStatus(
                    [watch EXCEPT !.pc = "subscribing",
                                  !.commitment = IF configCommitment # "undefined"
                                                 THEN configCommitment
                                                 ELSE cluster.commitment],
                    [status |-> "activating", error |-> "undefined"])
    /\ WatchFrame

\* handle.abort(): abortController.abort() fires the abort event once, then onAbort
handle_abort ==
    /\ watch.pc # "idle"
    /\ watch' = onAbort(IF watch.aborted THEN watch ELSE onAbort([watch EXCEPT !.aborted = TRUE]))
    /\ WatchFrame

\* await plan.subscribe({ abortSignal }) settles
subscribeSettled(ok) ==
    /\ watch.pc = "subscribing"
    /\ watch' = IF ok
                THEN setSubscriptionStatus([watch EXCEPT !.pc = "iterating"],
                                           [status |-> "active", error |-> "undefined"])
                ELSE subscriptionFailed(watch, "subscribe failed")
    /\ WatchFrame

\* the iterator yields a notification: the listener is called, the entry is stored
accountNotification(lamports, slot) ==
    /\ watch.pc = "iterating"
    /\ watch' = [watch EXCEPT !.account = [lamports |-> lamports, slot |-> slot],
                              !.writtenAfterAbort = @ \/ watch.aborted]
    /\ WatchFrame

\* the iterator is done
iteratorReturned ==
    /\ watch.pc = "iterating"
    /\ watch' = [watch EXCEPT !.pc = "returned"]
    /\ WatchFrame

\* the iterator or the listener throws
iteratorThrew ==
    /\ watch.pc = "iterating"
    /\ watch' = subscriptionFailed(watch, "iterator failed")
    /\ WatchFrame

WatchInit ==
    /\ createTransactionPoolController
    /\ spl = SplIdle
    /\ tx = TxIdle
    /\ wallet = NoWalletSigner
    /\ cluster = createClusterState
    /\ numeric = NoNumeric
    /\ stores = NoStores
    /\ solTransfer = NoSolTransfer
    /\ watch = createWatchers
    /\ connection = NoConnection

WatchNext ==
    \/ \E configCommitment \in {"undefined", "processed", "finalized"} :
           watchAccount(configCommitment)
    \/ handle_abort
    \/ \E ok \in BOOLEAN : subscribeSettled(ok)
    \/ \E lamports \in {"null", "5", "10"}, slot \in {"null", "1", "2"} :
           accountNotification(lamports, slot)
    \/ iteratorReturned
    \/ iteratorThrew

WatchSpec == WatchInit /\ [][WatchNext]_vars

\* C36: once the handle's abort() has been called the subscription status of the key is
\* 'inactive', was never set to 'active' or 'error' since, and no account entry has
\* been stored since.
C36_InactiveAfterAbort ==
    watch.aborted =>
        /\ watch.subscription.status = "inactive"
        /\ ~watch.activeAfterAbort
        /\ ~watch.writtenAfterAbort

\* abort() was called while subscribe was pending, subscribe resolved afterwards
C36_ActiveAfterAbort ==
    /\ watch.aborted
    /\ watch.pc = "iterating"
    /\ watch.subscription.status = "active"
    /\ watch.account = "none"

\* ------------------------------------------------------------------------
\* Wallet connection actions: connectWallet and disconnectWallet on store.wallet.
\* connection.connecting holds the connectWallet calls awaiting connector.connect;
\* connection.disconnecting is the await a disconnectWallet call stands at, with the
\* wallet state it read when it was called.
\* ------------------------------------------------------------------------
MaxConnects == 2  \* connectWallet calls awaiting their connector at once

ConnectionFrame == UNCHANGED <<OtherVars, stores, solTransfer, watch>>

RegisteredConnectors == {"wallet-1", "wallet-2"}

WalletDisconnected == [status |-> "disconnected", connectorId |-> "none", session |-> "none",
                       error |-> "none"]

NoDisconnect == [pc |-> "none", connectorId |-> "none"]

createActions ==
    [pc |-> "ready", wallet |-> WalletDisconnected, connecting |-> <<>>,
     disconnecting |-> NoDisconnect,
     settled |-> "none",   \* how the last disconnectWallet settled, "none" once a
                           \* connectWallet call has started after it
     stale |-> FALSE,      \* the connect that settled last was already pending when that
                           \* disconnectWallet was called
     thrown |-> "none"]

\* connectWallet(connectorId) up to its await
connectWallet(connectorId) ==
    /\ connection.pc = "ready"
    /\ Len(connection.connecting) < MaxConnects
    /\ connection' =
           IF connectorId \notin RegisteredConnectors
           THEN [connection EXCEPT !.settled = "none",
                                   !.thrown = "No wallet connector registered for id."]
           ELSE [connection EXCEPT
                    !.settled = "none", !.thrown = "none",
                    !.wallet = [WalletDisconnected EXCEPT !.status = "connecting",
                                                          !.connectorId = connectorId],
                    !.connecting = Append(@, [connectorId |-> connectorId, early |-> FALSE])]
    /\ ConnectionFrame

\* connector.connect(options) of the i-th pending connectWallet settles
connectSettled(i, ok) ==
    /\ connection.pc = "ready"
    /\ i \in 1..Len(connection.connecting)
    /\ LET connectorId == connection.connecting[i].connectorId IN
       connection' =
           [connection EXCEPT
               !.stale = connection.connecting[i].early,
               !.connecting = SubSeq(@, 1, i - 1) \o SubSeq(@, i + 1, Len(@)),
               !.wallet = IF ok
                          THEN [WalletDisconnected EXCEPT !.status = "connected",
                                                          !.connectorId = connectorId,
                                                          !.session = connectorId]
                          ELSE [WalletDisconnected EXCEPT !.status = "error",
                                                          !.connectorId = connectorId,
                                                          !.error = "connect failed"]]
    /\ ConnectionFrame

\* finally { updateState(store, { wallet: { status: 'disconnected' } }) }, then the
\* promise of disconnectWallet settles
disconnectFinally(s, outcome) ==
    [s EXCEPT !.wallet = WalletDisconnected, !.disconnecting = NoDisconnect,
              !.settled = outcome]

\* disconnectWallet() up to its first await
disconnectWallet ==
    /\ connection.pc = "ready"
    /\ connection.disconnecting.pc = "none"
    /\ LET wallet_ == connection.wallet
           called == [connection EXCEPT
                         !.disconnecting.connectorId = wallet_.connectorId,
                         !.connecting = [k \in 1..Len(@) |-> [@[k] EXCEPT !.early = TRUE]]]
       IN  connection' =
               IF wallet_.status = "disconnected"
               THEN [connection EXCEPT !.settled = "resolved"]
               ELSE IF wallet_.status = "connected"
               THEN [called EXCEPT !.disconnecting.pc = "session.disconnect"]
               ELSE IF wallet_.status = "connecting"
               THEN [called EXCEPT !.disconnecting.pc = "connector.disconnect"]
               ELSE disconnectFinally(called, "resolved")
    /\ ConnectionFrame

\* await wallet.session.disconnect() settles
sessionDisconnectSettled(ok) ==
    /\ connection.disconnecting.pc = "session.disconnect"
    /\ connection' = IF ok
                     THEN [connection EXCEPT !.disconnecting.pc = "connector.disconnect"]
                     ELSE disconnectFinally(connection, "rejected")
    /\ ConnectionFrame

\* await connector.disconnect() settles
connectorDisconnectSettled(ok) ==
    /\ connection.disconnecting.pc = "connector.disconnect"
    /\ connection' = disconnectFinally(connection, IF ok THEN "resolved" ELSE "rejected")
    /\ ConnectionFrame

ConnectionInit ==
    /\ createTransactionPoolController
    /\ spl = SplIdle
    /\ tx = TxIdle
    /\ wallet = NoWalletSigner
    /\ cluster = createClusterState
    /\ numeric = NoNumeric
    /\ stores = NoStores
    /\ solTransfer = NoSolTransfer
    /\ watch = NoWatch
    /\ connection = createActions

ConnectionNext ==
    \/ \E connectorId \in RegisteredConnectors \cup {"missing"} : connectWallet(connectorId)
    \/ \E i \in 1..MaxConnects, ok \in BOOLEAN : connectSettled(i, ok)
    \/ disconnectWallet
    \/ \E ok \in BOOLEAN : sessionDisconnectSettled(ok)
    \/ \E ok \in BOOLEAN : connectorDisconnectSettled(ok)

ConnectionSpec == ConnectionInit /\ [][ConnectionNext]_vars

\* C37: from the moment disconnectWallet settles, resolved or rejected, until a
\* connectWallet call starts, the wallet status is 'disconnected'.
C37_DisconnectedUntilNextConnect ==
    connection.settled # "none" => connection.wallet.status = "disconnected"

\* a connectWallet call was pending when disconnectWallet was called; its connector
\* resolved after disconnectWallet had settled
C37_ConnectedAfterDisconnect ==
    /\ connection.pc = "ready"
    /\ connection.settled = "resolved"
    /\ connection.wallet.status = "connected"
    /\ connection.stale
    /\ connection.connecting = <<>>
    /\ connection.disconnecting = NoDisconnect

\* ------------------------------------------------------------------------
\* C38: the Prepared Transaction handed to send, by the caller after prepare or by
\* prepareAndSend after its tuning step, has the lifetime that its message is bound to.
C38_SentLifetimeIsMessageLifetime ==
    tx.sending # NoTxPrepared => tx.sending.lifetime = tx.sending.message.lifetime

\* prepareAndSend has tuned with a blockhash reset: the message sent carries the
\* blockhash the tuner fetched, the lifetime field the one prepare bound
C38_StaleLifetimeSent ==
    /\ tx.call = "prepareAndSend"
    /\ tx.sending # NoTxPrepared
    /\ tx.sending.lifetime = tx.prepared.lifetime
    /\ tx.prepared.message.lifetime = tx.prepared.lifetime
    /\ tx.sending.message.lifetime # tx.sending.lifetime
    /\ tx.sending.message.lifetime # NoBlockhash
    /\ tx.pc = "done"
    /\ tx.result = "resolved"

\* ------------------------------------------------------------------------
\* a send or prepareAndSend call awaiting the helper
SendLike(p) == p.fn \in {"send", "prepareAndSend"}

\* C39: while a send or prepareAndSend call is pending and the instructions have not
\* been mutated since it started, sendState.status is 'loading'. When the slice is
\* loading the call started last is pending and nothing was mutated since; so a step in
\* which one of several like calls settles leaves such a call pending, and the slice
\* must still be loading after it.
C39_LoadingWhileAnySendPending ==
    [][\A p \in BagToSet(pending) :
           (/\ SendLike(p)
            /\ sendState.status = "loading"
            /\ CopiesIn(p, pending) >= 2
            /\ \A q \in BagToSet(pending) : SendLike(q) => q = p
            /\ pending' = Settle(p))
           => sendState'.status = "loading"]_vars

\* one of two pending send calls has resolved: the slice says success, the other call
\* is still awaiting helper.send
C39_SettledWhileAnotherPending ==
    /\ ret.op = "sendSettled"
    /\ ret.result = "resolve"
    /\ sendState.status = "success"
    /\ BagIn(Request("send", <<>>, NoLifetime), pending)
    /\ instructions = initialInstructions

\* ------------------------------------------------------------------------
\* C40: a prepareAndSend call, from the call to its settlement, success or failure,
\* writes sendState alone: the instruction list, prepared and prepareState are after
\* each of its steps what they were before; so are prepared and prepareState over the
\* steps of a send that was given a prepared override.
C40_PrepareAndSendWritesSendStateOnly ==
    [][/\ ret'.op \in {"prepareAndSend", "prepareAndSendSettled"}
           => UNCHANGED <<instructions, prepared, prepareState>>
       /\ ((ret'.op = "send" /\ ret'.has) \/ ret'.op = "sendSettled")
           => UNCHANGED <<instructions, prepared, prepareState>>]_vars

\* prepareAndSend has failed on a pool that holds a prepared transaction: only the send
\* slice tells
C40_Witness ==
    /\ ret.op = "prepareAndSendSettled"
    /\ ret.result = "reject"
    /\ sendState.status = "error"
    /\ prepared # NoPrepared
    /\ prepareState.status = "success"
    /\ instructions # <<>>

====
